---- MODULE Spec2Model ----
(***************************************************************************)
(* A model of RPGMLocalizer's translation pipeline and of the helpers it   *)
(* relies on (text merger, translator batches, backup, safe_write, the     *)
(* JSON / JS / Ruby injectors).                                            *)
(*                                                                         *)
(* The module holds several specifications over one set of variables:      *)
(*   Spec      the pipeline run (run_pipeline and what it calls)           *)
(*   SpecWrite one safe_write call, step by step, with crashes             *)
(*   SpecJs    extraction and injection on a JS source file                *)
(*   SpecJson  JSON extraction and injection on small trees                *)
(* A specification leaves the variables of the others at their initial     *)
(* value.                                                                  *)
(***************************************************************************)
EXTENDS Integers, Sequences, FiniteSets, TLC

(***************************************************************************)
(* Bounds of the model.                                                    *)
(***************************************************************************)
NumFiles == 2        \* game files found by _collect_files
MaxLines == 2        \* lines extracted from file 1 (the other files hold one)
MaxBatch == 2        \* largest batch_size setting explored
LineChars == 5       \* length of every extracted line of the pipeline model
NewChunks == 3       \* write calls the body of a safe_write block makes
MaxSrcLen == 6       \* characters of a JS source file
MaxKeyLen == 1       \* pieces of a dict key of a JSON file
MaxKeys == 2         \* keys of the root object of a JSON file
MaxPlugins == 2      \* plugins listed in plugins.js
NumSavers == 2       \* save_file workers running at the same time
MaxClock == 1        \* seconds that pass during the save stage
MaxRequests == 2     \* requests of one translate_batch call
MaxRetries == 2      \* largest max_retries setting explored
MaxRacing == 2       \* largest racing_endpoints setting explored
MaxLineLen == 2      \* symbols of a text given to the merger
MaxTextLen == 4      \* symbols of a text that is protected and restored
MaxShortLen == 2     \* symbols of a text sent to a backend, and of its answer
MaxListLen == 2      \* elements of a list of a JSON tree
MaxPathLen == 2      \* segments of a path given to _set_value_at_path
MaxNest == 2         \* levels of JSON text nested in a data file
MaxEntries == 3      \* entries given to create_merged_requests
MaxMergedLen == 6    \* symbols of the answer to a merged request
MaxValueLen == 2     \* characters of a text of a database file
MaxCommands == 4     \* commands of an event list
MaxNodes == 3        \* nodes of the object graph of a Ruby Marshal file
MaxKids == 2         \* values a list, dict or RubyObject refers to

(***************************************************************************)
(* Program constants.                                                      *)
(***************************************************************************)
TEXT_MERGER_MAX_SAFE_CHARS == 4000
TRANSLATOR_MAX_SAFE_CHARS == 4500
TokenLineBreakLen == 9       \* len("|||XLB|||")
TokenBatchSeparatorLen == 11 \* len("\n|||XYZ|||\n")
Concurrency == 2             \* the concurrent_requests setting of the run
LingvaTries == 2             \* range(2) of the Lingva fallback
MAX_RECURSION_DEPTH == 100   \* TRANSLATOR_RECURSION_MAX_DEPTH

Files == 1..NumFiles
LinesOf(f) == IF f = 1 THEN MaxLines ELSE 1

\* An extracted entry is (file, path); paths of a file are numbered.  Every
\* entry has its own text, so the entry also names its text.
Entry(f, p) == <<f, p>>
EntriesOfFile(f) == [p \in 1..LinesOf(f) |-> Entry(f, p)]

\* The file kinds save_file distinguishes by extension.
KindOf(f) == CASE f % 3 = 1 -> "json"
               [] f % 3 = 2 -> "rvdata2"
               [] OTHER     -> "js"

VARIABLES
    \* ---- pipeline (translation_pipeline.py) ----
    pc,             \* position of run_pipeline
    should_stop,    \* TranslationPipeline.should_stop
    batch_size,     \* the batch_size setting (merger and translator)
    backup_enabled, \* whether self.backup_manager is set
    disk,           \* content of each game file on disk
    ext,            \* per file: state of the extraction worker (process_file)
    parsed_files,   \* set of files with extracted entries
    requests_list,  \* create_merged_requests(entries)[0]
    idx,            \* loop index of the loop the pipeline is in
    final_requests, \* requests that go to the translator
    results_map,    \* (file, path) -> translated text
    retry_entries,  \* entries queued by _queue_retry
    cache,          \* texts stored in the translation cache
    call,           \* which translate_batch call is running (0: none)
    requests,       \* the requests of the running translate_batch call
    slices,         \* its slices: [reqs, st]
    results,        \* its TranslationResult list
    sv,             \* per file: state of the save worker (save_file)
    backup,         \* per file: content of the backup made in this run, or "none"
    finished,       \* the finished signal: "none", "ok", "fail"
    hist            \* history of the run: the files the pipeline wrote, and
                    \* whether stop() came before the save stage began

VARIABLES
    \* ---- one safe_write call (utils/file_ops.py) ----
    wpc,            \* position of the call
    target,         \* content of filepath
    temp,           \* content of temp_path, or Absent
    fh,             \* the file object f: "none" or "open"
    written,        \* chunks the body has written to f
    raised,         \* what escapes the call: "none", "Exception", "BaseException"
    warned          \* the warning "Failed to remove temp file" was logged

writeVars == <<wpc, target, temp, fh, written, raised, warned>>

VARIABLES
    \* ---- a JS source file through JsonParser (parsers/json_parser.py) ----
    js_pc,          \* "read", "extracted", "applied"
    content,        \* the characters of the file
    extracted,      \* self.extracted: the (path, text) pairs of extract_text
    translations,   \* the map handed to apply_translation
    js_result       \* what apply_translation returned

jsVars == <<js_pc, content, extracted, translations, js_result>>

VARIABLES
    \* ---- a JSON data file through JsonParser (parsers/json_parser.py) ----
    json_pc,        \* "read", "extracted", "applied"
    data,           \* json.loads(content): the parsed tree of the file
    json_extracted, \* self.extracted of extract_text, with the position read
    json_path,      \* the path of the one-entry map handed to apply_translation
    json_value,     \* the value of that entry
    json_result     \* the tree apply_translation returned

jsonVars == <<json_pc, data, json_extracted, json_path, json_value, json_result>>

VARIABLES
    \* ---- one call of a helper followed on its own ----
    fn_pc,          \* the helper and the position in it
    fn_in,          \* what the call is given
    fn_out,         \* what it has computed
    fn_disk         \* the file content it has written, if it writes

fnVars == <<fn_pc, fn_in, fn_out, fn_disk>>

\* What the steps of one part of the model leave alone.
notPipe == <<writeVars, jsVars, jsonVars, fnVars>>

pipeVars == <<pc, should_stop, batch_size, backup_enabled, disk, ext, parsed_files,
              requests_list, idx, final_requests, results_map, retry_entries, cache,
              call, requests, slices, results, sv, backup, finished, hist>>

-----------------------------------------------------------------------------
(***************************************************************************)
(* TextMerger (text_merger.py)                                             *)
(***************************************************************************)

\* len(text) of an entry's text.
TextLen(e) == LineChars

RECURSIVE SumLen(_)
SumLen(block) ==
    IF block = <<>> THEN 0 ELSE TextLen(Head(block)) + SumLen(Tail(block))

\* A request of the merger: its file, the path of its first entry (the key),
\* the paths it holds and whether it is a merged block.
Request(f, block) ==
    [file |-> f, key |-> Head(block)[2],
     entries |-> [i \in 1..Len(block) |-> block[i][2]],
     is_merged |-> Len(block) > 1]

\* flush_block: a block of one entry becomes a single request, a longer block
\* a merged request; an empty block adds nothing.
flush_block(m, f) ==
    IF m.current_block = <<>> THEN m
    ELSE [current_block |-> <<>>,
          merged_requests |-> Append(m.merged_requests, Request(f, m.current_block))]

\* add: flush first when the block is full or the predicted size passes the
\* limit, then append.
MergerAdd(m, f, e, bs) ==
    LET current_char_count == SumLen(m.current_block)
        separator_overhead == (Len(m.current_block) + 1) * (TokenLineBreakLen + 2)
        total_predicted == current_char_count + TextLen(e) + separator_overhead
        m1 == IF Len(m.current_block) >= bs \/ total_predicted > TEXT_MERGER_MAX_SAFE_CHARS
              THEN flush_block(m, f) ELSE m
    IN  [m1 EXCEPT !.current_block = Append(@, e)]

RECURSIVE AddAll(_, _, _, _)
AddAll(m, f, es, bs) ==
    IF es = <<>> THEN m ELSE AddAll(MergerAdd(m, f, Head(es), bs), f, Tail(es), bs)

\* get_requests after reset and the add calls for one file.
FileRequests(f, bs) ==
    flush_block(AddAll([current_block |-> <<>>, merged_requests |-> <<>>],
                       f, EntriesOfFile(f), bs), f).merged_requests

\* create_merged_requests: the requests of the parsed files, file by file.
RECURSIVE create_merged_requests(_, _, _)
create_merged_requests(f, parsed, bs) ==
    IF f > NumFiles THEN <<>>
    ELSE (IF f \in parsed THEN FileRequests(f, bs) ELSE <<>>)
         \o create_merged_requests(f + 1, parsed, bs)

\* The text of a request is named by its file and paths.
ReqText(r) == <<r.file, r.entries>>
ReqLen(r) == LET n == Len(r.entries)
             IN  n * LineChars + (n - 1) * (TokenLineBreakLen + 2)

\* _split_lines on a translated text that splits into k non-empty pieces,
\* followed by an empty piece when trail: the number of lines it returns.
SplitCount(k, trail, expected_count) ==
    LET n == IF trail THEN k + 1 ELSE k
    IN  IF n > expected_count /\ trail THEN expected_count ELSE n

\* split_merged_result_checked: mismatch flag.
SplitMismatch(tr, r) == SplitCount(tr.k, tr.trail, Len(r.entries)) # Len(r.entries)


-----------------------------------------------------------------------------
(***************************************************************************)
(* GoogleTranslator.translate_batch (translator.py)                        *)
(***************************************************************************)

\* What the translator can return for a request that succeeds: a text that
\* splits into k non-empty pieces, with or without a trailing empty piece.
\* A single request's text is one piece.
TrShapes(r) ==
    IF r.is_merged
    THEN {[k |-> k, trail |-> t] : k \in (Len(r.entries) - 1)..(Len(r.entries) + 1), t \in BOOLEAN}
    ELSE {[k |-> 1, trail |-> FALSE]}

NoTr == [k |-> 0, trail |-> FALSE]

\* A TranslationResult: success and the translated text (its shape).
FailResult == [success |-> FALSE, tr |-> NoTr]
OkResult(t) == [success |-> TRUE, tr |-> t]
Outcomes(r) == {FailResult} \cup {OkResult(t) : t \in TrShapes(r)}

\* _prepare_slices: the request indexes cut into slices of at most bs texts
\* and at most TRANSLATOR_MAX_SAFE_CHARS characters.
RECURSIVE PrepSlices(_, _, _, _, _, _)
PrepSlices(reqs, i, current_batch, current_chars, acc, bs) ==
    IF i > Len(reqs)
    THEN (IF current_batch # <<>> THEN Append(acc, current_batch) ELSE acc)
    ELSE LET text_len == ReqLen(reqs[i])
             overhead == IF current_batch # <<>> THEN TokenBatchSeparatorLen ELSE 0
             flush == \/ Len(current_batch) >= bs
                      \/ (current_chars + text_len + overhead > TRANSLATOR_MAX_SAFE_CHARS
                          /\ current_batch # <<>>)
         IN  IF flush
             THEN PrepSlices(reqs, i + 1, <<i>>, text_len, Append(acc, current_batch), bs)
             ELSE PrepSlices(reqs, i + 1, Append(current_batch, i),
                             current_chars + text_len + overhead, acc, bs)

_prepare_slices(reqs, bs) ==
    LET batches == PrepSlices(reqs, 1, <<>>, 0, <<>>, bs)
    IN  [s \in 1..Len(batches) |-> [reqs |-> batches[s], st |-> "pending"]]

SeqRange(q) == {q[i] : i \in 1..Len(q)}

\* The slices that hold the semaphore.
InFlight == {s \in 1..Len(slices) : slices[s].st = "inflight"}

\* The batch requests sent to the endpoints so far, by call.
Started == {<<call, s>> : s \in {t \in 1..Len(slices) : slices[t].st # "pending"}}

-----------------------------------------------------------------------------
(***************************************************************************)
(* TranslationPipeline (translation_pipeline.py)                           *)
(***************************************************************************)
AllEntries == UNION {{Entry(f, p) : p \in 1..LinesOf(f)} : f \in Files}

ReqEntries(r) == {Entry(r.file, r.entries[i]) : i \in 1..Len(r.entries)}

\* _queue_retry: the entries of the batch not queued yet, in order.
RECURSIVE QueueFrom(_, _, _)
QueueFrom(queue, r, i) ==
    IF i > Len(r.entries) THEN queue
    ELSE LET e == Entry(r.file, r.entries[i])
         IN  QueueFrom(IF e \in SeqRange(queue) THEN queue ELSE Append(queue, e), r, i + 1)

\* A _queue_retry that queues the first line of the batch only.
QueueFirstLine(queue, r) == QueueFrom(queue, [r EXCEPT !.entries = <<Head(@)>>], 1)

_queue_retry(queue, r) == QueueFrom(queue, r, 1)

\* results_map with the pieces of a merged request, or the text of a single.
Record(map, r) == [e \in AllEntries |-> IF e \in ReqEntries(r) THEN "tr" ELSE map[e]]

\* cache.set: one translation per text.
CacheSet(c, text, t) == {x \in c : x.text # text} \cup {[text |-> text, tr |-> t]}

\* The unmerged request of the retry round for one entry.
RetryRequest(e) == [file |-> e[1], key |-> e[2], entries |-> <<e[2]>>, is_merged |-> FALSE]

OkDisk == [st |-> "ok", tr |-> {}]

PipeInit ==
    /\ pc = "extract"
    /\ should_stop = FALSE
    /\ batch_size \in 1..MaxBatch
    /\ backup_enabled \in BOOLEAN
    /\ disk = [f \in Files |-> OkDisk]
    /\ ext = [f \in Files |-> "todo"]
    /\ parsed_files = {}
    /\ requests_list = <<>>
    /\ idx = 0
    /\ final_requests = <<>>
    /\ results_map = [e \in AllEntries |-> "none"]
    /\ retry_entries = <<>>
    /\ cache = {}
    /\ call = 0
    /\ requests = <<>>
    /\ slices = <<>>
    /\ results = <<>>
    /\ sv = [f \in Files |-> "idle"]
    /\ backup = [f \in Files |-> "none"]
    /\ finished = "none"
    /\ hist = [wrote |-> {}, stopEarly |-> FALSE]

\* stop(): the user asks the run to stop, at any moment.
Stop ==
    /\ UNCHANGED notPipe
    /\ pc # "done"
    /\ ~should_stop
    /\ should_stop' = TRUE
    /\ hist' = [hist EXCEPT !.stopEarly = (pc # "saving")]
    /\ UNCHANGED <<pc, batch_size, backup_enabled, disk, ext, parsed_files,
                   requests_list, idx, final_requests, results_map, retry_entries,
                   cache, call, requests, slices, results, sv, backup, finished>>

\* The game file is changed by something else and no longer parses.  What
\* counts is the content the extraction worker reads and the content the save
\* worker reads: the change happens before the first or between the two.
FileChange(f) ==
    /\ UNCHANGED notPipe
    /\ (pc = "extract" /\ ext[f] = "todo") \/ pc = "stopcheck"
    /\ disk[f].st = "ok"
    /\ disk' = [disk EXCEPT ![f].st = "garbled"]
    /\ UNCHANGED <<pc, should_stop, batch_size, backup_enabled, ext, parsed_files,
                   requests_list, idx, final_requests, results_map, retry_entries,
                   cache, call, requests, slices, results, sv, backup, finished, hist>>

\* _extract_all_text.process_file, one worker per file.
process_file(f) ==
    /\ UNCHANGED notPipe
    /\ pc = "extract"
    /\ ext[f] = "todo"
    /\ ext' = [ext EXCEPT ![f] = IF should_stop THEN "none"
                                 ELSE IF disk[f].st = "ok" THEN "ok" ELSE "none"]
    /\ UNCHANGED <<pc, should_stop, batch_size, backup_enabled, disk, parsed_files,
                   requests_list, idx, final_requests, results_map, retry_entries,
                   cache, call, requests, slices, results, sv, backup, finished, hist>>

\* run_pipeline after the extraction workers: no entries ends the run with
\* success, otherwise the requests are merged and the cache loop starts.
ExtractDone ==
    /\ UNCHANGED notPipe
    /\ pc = "extract"
    /\ \A f \in Files : ext[f] # "todo"
    /\ LET parsed == {f \in Files : ext[f] = "ok"}
       IN  /\ parsed_files' = parsed
           /\ IF parsed = {}
              THEN /\ finished' = "ok"
                   /\ pc' = "done"
                   /\ UNCHANGED <<requests_list, idx>>
              ELSE /\ requests_list' = create_merged_requests(1, parsed, batch_size)
                   /\ idx' = 1
                   /\ pc' = "cache"
                   /\ UNCHANGED finished
    /\ UNCHANGED <<should_stop, batch_size, backup_enabled, disk, ext,
                   final_requests, results_map, retry_entries,
                   cache, call, requests, slices, results, sv, backup, hist>>


\* _translate_entries returns results_map: its locals are gone.
ReturnResults ==
    /\ pc' = "stopcheck"
    /\ requests_list' = <<>>
    /\ idx' = 0
    /\ final_requests' = <<>>
    /\ retry_entries' = <<>>
    /\ call' = 0
    /\ requests' = <<>>
    /\ slices' = <<>>
    /\ results' = <<>>

\* _translate_entries, the cache loop: one request per step.  What the cache
\* holds for the request's text is an input of the run: nothing, or a
\* translation of any shape.
CacheCheck ==
    /\ UNCHANGED notPipe
    /\ pc = "cache"
    /\ idx <= Len(requests_list)
    /\ LET r == requests_list[idx]
       IN  \/ /\ final_requests' = Append(final_requests, r)
              /\ UNCHANGED <<results_map, retry_entries, cache>>
           \/ \E t \in TrShapes(r) :
                /\ cache' = CacheSet(cache, ReqText(r), t)
                /\ IF r.is_merged /\ SplitMismatch(t, r)
                   THEN /\ retry_entries' = _queue_retry(retry_entries, r)
                        /\ UNCHANGED results_map
                   ELSE /\ results_map' = Record(results_map, r)
                        /\ UNCHANGED retry_entries
                /\ UNCHANGED final_requests
    /\ idx' = idx + 1
    /\ UNCHANGED <<pc, should_stop, batch_size, backup_enabled, disk, ext, parsed_files,
                   requests_list, call, requests, slices, results, sv, backup, finished,
                   hist>>

\* The start of a translate_batch call: results initialised as failures, the
\* requests cut into slices.
StartCall(n, reqs) ==
    /\ call' = n
    /\ requests' = reqs
    /\ results' = [i \in 1..Len(reqs) |-> FailResult]
    /\ slices' = _prepare_slices(reqs, batch_size)
    /\ pc' = "send"

\* _translate_entries after the cache loop: with nothing left to send it
\* returns results_map, else process_all starts the first translate_batch.
CacheDone ==
    /\ UNCHANGED notPipe
    /\ pc = "cache"
    /\ idx > Len(requests_list)
    /\ IF final_requests = <<>>
       THEN ReturnResults
       ELSE /\ StartCall(1, final_requests)
            /\ UNCHANGED <<requests_list, idx, final_requests, retry_entries>>
    /\ UNCHANGED <<should_stop, batch_size, backup_enabled, disk, ext, parsed_files,
                   results_map, cache, sv, backup, finished, hist>>

\* process_slice enters the semaphore and sends its batch to the endpoints.
SliceStart(s) ==
    /\ UNCHANGED notPipe
    /\ pc = "send"
    /\ slices[s].st = "pending"
    /\ Cardinality(InFlight) < Concurrency
    /\ slices' = [slices EXCEPT ![s].st = "inflight"]
    /\ UNCHANGED <<pc, should_stop, batch_size, backup_enabled, disk, ext, parsed_files,
                   requests_list, idx, final_requests, results_map, retry_entries,
                   cache, call, requests, results, sv, backup, finished, hist>>

\* process_slice gets its answer (from the batch call or from the individual
\* retries) and re-maps it: each text of the slice succeeds with some
\* translation or fails (no translation, failed validation, exception).
SliceFinish(s) ==
    /\ UNCHANGED notPipe
    /\ pc = "send"
    /\ slices[s].st = "inflight"
    /\ LET members == SeqRange(slices[s].reqs)
       IN  \E out \in [members -> UNION {Outcomes(requests[i]) : i \in members}] :
             /\ \A i \in members : out[i] \in Outcomes(requests[i])
             /\ results' = [i \in 1..Len(results) |->
                              IF i \in members THEN out[i] ELSE results[i]]
    /\ slices' = [slices EXCEPT ![s].st = "done"]
    /\ UNCHANGED <<pc, should_stop, batch_size, backup_enabled, disk, ext, parsed_files,
                   requests_list, idx, final_requests, results_map, retry_entries,
                   cache, call, requests, sv, backup, finished, hist>>

\* asyncio.gather returns: translate_batch hands its results to process_all.
BatchReturn ==
    /\ UNCHANGED notPipe
    /\ pc = "send"
    /\ \A s \in 1..Len(slices) : slices[s].st = "done"
    /\ pc' = IF call = 1 THEN "proc1" ELSE "proc2"
    /\ idx' = 1
    /\ UNCHANGED <<should_stop, batch_size, backup_enabled, disk, ext, parsed_files,
                   requests_list, final_requests, results_map, retry_entries,
                   cache, call, requests, slices, results, sv, backup, finished, hist>>

\* process_all, the loop over the results of the first call: one result.
ProcessResult ==
    /\ UNCHANGED notPipe
    /\ pc = "proc1"
    /\ idx <= Len(results)
    /\ ~should_stop
    /\ LET res == results[idx]
           r == requests[idx]
       IN  IF res.success
           THEN /\ cache' = CacheSet(cache, ReqText(r), res.tr)
                /\ IF r.is_merged /\ SplitMismatch(res.tr, r)
                   THEN /\ retry_entries' = _queue_retry(retry_entries, r)
                        /\ UNCHANGED results_map
                   ELSE /\ results_map' = Record(results_map, r)
                        /\ UNCHANGED retry_entries
           ELSE UNCHANGED <<cache, retry_entries, results_map>>
    /\ idx' = idx + 1
    /\ UNCHANGED <<pc, should_stop, batch_size, backup_enabled, disk, ext, parsed_files,
                   requests_list, final_requests, call, requests, slices, results,
                   sv, backup, finished, hist>>

\* The loop ends, or breaks because should_stop is set.
ProcessEnd ==
    /\ UNCHANGED notPipe
    /\ pc = "proc1"
    /\ idx > Len(results) \/ should_stop
    /\ pc' = "retrycheck"
    /\ UNCHANGED <<should_stop, batch_size, backup_enabled, disk, ext, parsed_files,
                   requests_list, idx, final_requests, results_map, retry_entries,
                   cache, call, requests, slices, results, sv, backup, finished, hist>>

\* The requests of the retry round, one per queued entry.
retry_requests == [i \in 1..Len(retry_entries) |-> RetryRequest(retry_entries[i])]

\* "if retry_entries:" the queued entries go out as unmerged requests in a
\* second translate_batch call.
RetryRound ==
    /\ UNCHANGED notPipe
    /\ pc = "retrycheck"
    /\ IF retry_entries # <<>>
       THEN /\ StartCall(2, retry_requests)
            /\ UNCHANGED <<requests_list, idx, final_requests, retry_entries>>
       ELSE ReturnResults
    /\ UNCHANGED <<should_stop, batch_size, backup_enabled, disk, ext, parsed_files,
                   results_map, cache, sv, backup, finished, hist>>

\* A retry loop that records the text of a result whatever its success flag.
RecordEveryRetryResult ==
    /\ UNCHANGED notPipe
    /\ pc = "proc2"
    /\ idx <= Len(results)
    /\ results_map' = Record(results_map, requests[idx])
    /\ idx' = idx + 1
    /\ UNCHANGED <<pc, should_stop, batch_size, backup_enabled, disk, ext, parsed_files,
                   requests_list, final_requests, retry_entries, call, requests, slices,
                   results, sv, backup, finished, hist, cache>>

\* The loop over the retry results: one result.
ProcessRetryResult ==
    /\ UNCHANGED notPipe
    /\ pc = "proc2"
    /\ idx <= Len(results)
    /\ LET res == results[idx]
           r == requests[idx]
       IN  IF res.success
           THEN /\ cache' = CacheSet(cache, ReqText(r), res.tr)
                /\ results_map' = Record(results_map, r)
           ELSE UNCHANGED <<cache, results_map>>
    /\ idx' = idx + 1
    /\ UNCHANGED <<pc, should_stop, batch_size, backup_enabled, disk, ext, parsed_files,
                   requests_list, final_requests, retry_entries, call, requests, slices,
                   results, sv, backup, finished, hist>>

\* The retry loop ends and process_all returns.
ProcessRetryEnd ==
    /\ UNCHANGED notPipe
    /\ pc = "proc2"
    /\ idx > Len(results)
    /\ ReturnResults
    /\ UNCHANGED <<should_stop, batch_size, backup_enabled, disk, ext, parsed_files,
                   results_map, cache, sv, backup, finished, hist>>


\* run_pipeline after _translate_entries: a stop ends the run with
\* success=false, otherwise the save stage begins.
StopCheck ==
    /\ UNCHANGED notPipe
    /\ pc = "stopcheck"
    /\ IF should_stop
       THEN /\ finished' = "fail"
            /\ pc' = "done"
       ELSE /\ pc' = "savebegin"
            /\ UNCHANGED finished
    /\ UNCHANGED <<should_stop, batch_size, backup_enabled, disk, ext, parsed_files,
                   requests_list, idx, final_requests, results_map, retry_entries,
                   cache, call, requests, slices, results, sv, backup, hist>>

\* The files that have a translation in results_map.
file_updates == {f \in Files : \E e \in AllEntries : e[1] = f /\ results_map[e] # "none"}

\* The paths of a file that have a translation.
changes(f) == {p \in 1..LinesOf(f) : results_map[Entry(f, p)] # "none"}

\* _save_translations groups the results by file and starts a worker for
\* each file of the group.
SaveBegin ==
    /\ UNCHANGED notPipe
    /\ pc = "savebegin"
    /\ sv' = [f \in Files |-> IF f \in file_updates THEN "start" ELSE "idle"]
    /\ pc' = "saving"
    /\ UNCHANGED <<should_stop, batch_size, backup_enabled, disk, ext, parsed_files,
                   requests_list, idx, final_requests, results_map, retry_entries,
                   cache, call, requests, slices, results, backup, finished, hist>>

\* save_file, its first checks: the stop flag, then changes and parsed_files.
SaveCheck(f) ==
    /\ UNCHANGED notPipe
    /\ pc = "saving"
    /\ sv[f] = "start"
    /\ sv' = [sv EXCEPT ![f] =
                IF should_stop \/ changes(f) = {} \/ f \notin parsed_files THEN "returned"
                ELSE IF backup_enabled THEN "backup" ELSE "apply"]
    /\ UNCHANGED <<pc, should_stop, batch_size, backup_enabled, disk, ext, parsed_files,
                   requests_list, idx, final_requests, results_map, retry_entries,
                   cache, call, requests, slices, results, backup, finished, hist>>

\* A save step that goes on to write when the backup failed.
BackupOrGoOn(f) ==
    /\ UNCHANGED notPipe
    /\ pc = "saving"
    /\ sv[f] = "backup"
    /\ \/ /\ backup' = [backup EXCEPT ![f] = disk[f].st]
          /\ sv' = [sv EXCEPT ![f] = "apply"]
       \/ /\ sv' = [sv EXCEPT ![f] = "apply"]
          /\ UNCHANGED backup
    /\ UNCHANGED <<pc, should_stop, batch_size, backup_enabled, disk, ext, parsed_files,
                   requests_list, idx, final_requests, results_map, retry_entries,
                   cache, call, requests, slices, results, finished, hist>>

\* create_backup copies the file and returns the backup's path, or fails and
\* returns None, and then save_file returns without writing.
create_backup(f) ==
    /\ UNCHANGED notPipe
    /\ pc = "saving"
    /\ sv[f] = "backup"
    /\ \/ /\ backup' = [backup EXCEPT ![f] = disk[f].st]
          /\ sv' = [sv EXCEPT ![f] = "apply"]
       \/ /\ sv' = [sv EXCEPT ![f] = "nobackup"]
          /\ UNCHANGED backup
    /\ UNCHANGED <<pc, should_stop, batch_size, backup_enabled, disk, ext, parsed_files,
                   requests_list, idx, final_requests, results_map, retry_entries,
                   cache, call, requests, slices, results, finished, hist>>

\* The except branch of save_file: with a backup manager and a backup of the
\* file, restore_backup copies the backup over the file.
RestoreAfterError(f) ==
    IF backup_enabled /\ backup[f] # "none"
    THEN /\ disk' = [disk EXCEPT ![f] = [st |-> backup[f], tr |-> {}]]
         /\ hist' = [hist EXCEPT !.wrote = @ \cup {f}]
    ELSE UNCHANGED <<disk, hist>>

\* parser.apply_translation: the JSON parser returns None for content that
\* does not parse, the Ruby parser raises; otherwise the translated data.
apply_translation(f) ==
    /\ UNCHANGED notPipe
    /\ pc = "saving"
    /\ sv[f] = "apply"
    /\ IF disk[f].st = "ok"
       THEN /\ sv' = [sv EXCEPT ![f] = "write"]
            /\ UNCHANGED <<disk, hist>>
       ELSE IF KindOf(f) = "rvdata2"
            THEN /\ sv' = [sv EXCEPT ![f] = "failed"]
                 /\ RestoreAfterError(f)
            ELSE /\ sv' = [sv EXCEPT ![f] = "writenone"]
                 /\ UNCHANGED <<disk, hist>>
    /\ UNCHANGED <<pc, should_stop, batch_size, backup_enabled, ext, parsed_files,
                   requests_list, idx, final_requests, results_map, retry_entries,
                   cache, call, requests, slices, results, backup, finished>>

\* save_file writes new_data through safe_write: the file is replaced by the
\* serialized data (json.dump(None) writes null), or the write raises and the
\* except branch runs.
WriteFile(f) ==
    /\ UNCHANGED notPipe
    /\ pc = "saving"
    /\ sv[f] \in {"write", "writenone"}
    /\ \/ /\ disk' = [disk EXCEPT ![f] =
                        IF sv[f] = "write" THEN [st |-> "ok", tr |-> changes(f)]
                        ELSE [st |-> "null", tr |-> {}]]
          /\ hist' = [hist EXCEPT !.wrote = @ \cup {f}]
          /\ sv' = [sv EXCEPT ![f] = "saved"]
       \/ /\ RestoreAfterError(f)
          /\ sv' = [sv EXCEPT ![f] = "failed"]
    /\ UNCHANGED <<pc, should_stop, batch_size, backup_enabled, ext, parsed_files,
                   requests_list, idx, final_requests, results_map, retry_entries,
                   cache, call, requests, slices, results, backup, finished>>

\* The workers are done: the cache is saved and the run finishes with success.
SaveDone ==
    /\ UNCHANGED notPipe
    /\ pc = "saving"
    /\ \A f \in Files : sv[f] \in {"idle", "returned", "nobackup", "saved", "failed"}
    /\ finished' = "ok"
    /\ pc' = "done"
    /\ UNCHANGED <<should_stop, batch_size, backup_enabled, disk, ext, parsed_files,
                   requests_list, idx, final_requests, results_map, retry_entries,
                   cache, call, requests, slices, results, sv, backup, hist>>

PipeNext ==
    \/ Stop
    \/ \E f \in Files : FileChange(f)
    \/ \E f \in Files : process_file(f)
    \/ ExtractDone
    \/ CacheCheck
    \/ CacheDone
    \/ \E s \in 1..Len(slices) : SliceStart(s)
    \/ \E s \in 1..Len(slices) : SliceFinish(s)
    \/ BatchReturn
    \/ ProcessResult
    \/ ProcessEnd
    \/ RetryRound
    \/ ProcessRetryResult
    \/ ProcessRetryEnd
    \/ StopCheck
    \/ SaveBegin
    \/ \E f \in Files : SaveCheck(f)
    \/ \E f \in Files : create_backup(f)
    \/ \E f \in Files : apply_translation(f)
    \/ \E f \in Files : WriteFile(f)
    \/ SaveDone

notWrite == <<pipeVars, jsVars, jsonVars, fnVars>>
notJs == <<pipeVars, writeVars, jsonVars, fnVars>>
notJson == <<pipeVars, writeVars, jsVars, fnVars>>
notFn == <<pipeVars, writeVars, jsVars, jsonVars>>

vars == <<pipeVars, writeVars, jsVars, jsonVars, fnVars>>

-----------------------------------------------------------------------------
(***************************************************************************)
(* safe_write (utils/file_ops.py)                                          *)
(***************************************************************************)

\* File contents: the previous content of the target, what an earlier call
\* left in the temporary file, the first k chunks of the new content; Absent
\* is a path with no file.
Old == [kind |-> "old", n |-> 0]
Stale == [kind |-> "stale", n |-> 0]
Absent == [kind |-> "absent", n |-> 0]
Chunks(k) == [kind |-> "new", n |-> k]

\* The body writes the new content in NewChunks chunks; fewer chunks are a
\* partial content.
Complete(c) == c = Old \/ c = Chunks(NewChunks)

WriteInit ==
    /\ wpc = "open"
    /\ target = Old
    /\ temp \in {Absent, Stale}
    /\ fh = "none"
    /\ written = 0
    /\ raised = "none"
    /\ warned = FALSE

\* f = open(temp_path, mode): creates or truncates the temporary file, or
\* raises.
OpenTemp ==
    /\ UNCHANGED notWrite
    /\ wpc = "open"
    /\ \/ /\ temp' = Chunks(0)
          /\ fh' = "open"
          /\ wpc' = "body"
          /\ UNCHANGED raised
       \/ /\ raised' = "Exception"
          /\ wpc' = "except"
          /\ UNCHANGED <<temp, fh>>
    /\ UNCHANGED <<target, written, warned>>

\* The body of the with statement writes one chunk to f: it goes to the
\* buffer of the file object.
BodyWrite ==
    /\ UNCHANGED notWrite
    /\ wpc = "body"
    /\ written < NewChunks
    /\ written' = written + 1
    /\ UNCHANGED <<wpc, target, temp, fh, raised, warned>>

\* Buffered chunks reach the temporary file on disk while f is open.
BufferToDisk ==
    /\ UNCHANGED notWrite
    /\ wpc \in {"body", "flush"}
    /\ fh = "open"
    /\ \E k \in (temp.n + 1)..written : temp' = Chunks(k)
    /\ UNCHANGED <<wpc, target, fh, written, raised, warned>>

\* The body ends normally.
BodyEnd ==
    /\ UNCHANGED notWrite
    /\ wpc = "body"
    /\ written = NewChunks
    /\ wpc' = "flush"
    /\ UNCHANGED <<target, temp, fh, written, raised, warned>>

\* The body raises: an Exception goes to the except clause, any other
\* BaseException to the finally clause only.
BodyRaise ==
    /\ UNCHANGED notWrite
    /\ wpc = "body"
    /\ \E e \in {"Exception", "BaseException"} :
         /\ raised' = e
         /\ wpc' = IF e = "Exception" THEN "except" ELSE "finally"
    /\ UNCHANGED <<target, temp, fh, written, warned>>

\* A safe_write that goes on to the rename with chunks still in the buffer.
ForgetBuffer ==
    /\ UNCHANGED notWrite
    /\ wpc = "flush"
    /\ fh' = "none"
    /\ wpc' = "replace"
    /\ UNCHANGED <<target, temp, written, raised, warned>>

\* f.flush(); os.fsync(f.fileno()); f.close(); f = None: every chunk written
\* is in the temporary file on disk, or one of the calls raises.
FlushClose ==
    /\ UNCHANGED notWrite
    /\ wpc = "flush"
    /\ \/ /\ temp' = Chunks(written)
          /\ fh' = "none"
          /\ wpc' = "replace"
          /\ UNCHANGED raised
       \/ /\ raised' = "Exception"
          /\ wpc' = "except"
          /\ UNCHANGED <<temp, fh>>
    /\ UNCHANGED <<target, written, warned>>

\* os.replace(temp_path, filepath): the rename happens at once, or raises.
Replace ==
    /\ UNCHANGED notWrite
    /\ wpc = "replace"
    /\ \/ /\ target' = temp
          /\ temp' = Absent
          /\ wpc' = "finally"
          /\ UNCHANGED raised
       \/ /\ raised' = "Exception"
          /\ wpc' = "except"
          /\ UNCHANGED <<target, temp>>
    /\ UNCHANGED <<fh, written, warned>>

\* os.remove(temp_path) of the except clause: removes the file, or fails
\* with an OSError and a warning is logged.
RemoveTemp(t) == {[file |-> Absent, warning |-> FALSE], [file |-> t, warning |-> TRUE]}

\* The except clause: close f, remove the temporary file if it exists, raise
\* again.
ExceptClause ==
    /\ UNCHANGED notWrite
    /\ wpc = "except"
    /\ fh' = "none"
    /\ IF temp # Absent
       THEN \E r \in RemoveTemp(temp) : temp' = r.file /\ warned' = r.warning
       ELSE UNCHANGED <<temp, warned>>
    /\ wpc' = "finally"
    /\ UNCHANGED <<target, written, raised>>

\* The finally clause closes f if it is still set; the call is over.
FinallyClause ==
    /\ UNCHANGED notWrite
    /\ wpc = "finally"
    /\ fh' = "none"
    /\ wpc' = "done"
    /\ UNCHANGED <<target, temp, written, raised, warned>>

\* The process is killed: nothing more runs, the disk stays as it is.
Crash ==
    /\ UNCHANGED notWrite
    /\ wpc \notin {"done", "crashed"}
    /\ wpc' = "crashed"
    /\ UNCHANGED <<target, temp, fh, written, raised, warned>>

WriteNext ==
    \/ OpenTemp
    \/ BodyWrite
    \/ BufferToDisk
    \/ BodyEnd
    \/ BodyRaise
    \/ FlushClose
    \/ Replace
    \/ ExceptClause
    \/ FinallyClause
    \/ Crash

\* The pipeline before it starts, for the specifications of the helpers.
PipeIdle == PipeInit /\ batch_size = 1 /\ backup_enabled = FALSE

\* No safe_write call is being followed.
WriteIdle == WriteInit /\ temp = Absent

-----------------------------------------------------------------------------
(***************************************************************************)
(* JSStringTokenizer (parsers/js_tokenizer.py) and the JS-source branch of *)
(* JsonParser.  A text is a sequence of characters.  The files of the      *)
(* model are written with the characters of SrcChars; the operators below  *)
(* follow the code for any character.                                      *)
(***************************************************************************)
SrcChars == {"a", " ", "\"", "\\"}

\* The grave accent that opens a template literal, by name.
BackTick == "GRAVE"
Quotes == {"\"", "'", BackTick}
Whitespace == {" ", "\t", "\n", "\r"}

\* escape_map.get(escaped, escaped) of extract_strings.
EscapeMap(c) ==
    CASE c = "n" -> "\n"
      [] c = "t" -> "\t"
      [] c = "r" -> "\r"
      [] c = "0" -> "NUL"
      [] OTHER   -> c

\* The end of a ${...} expression of a template literal, by brace depth.
RECURSIVE SkipExpr(_, _, _)
SkipExpr(code, i, depth) ==
    IF i > Len(code) \/ depth = 0 THEN i
    ELSE SkipExpr(code, i + 1, CASE code[i] = "{" -> depth + 1
                                 [] code[i] = "}" -> depth - 1
                                 [] OTHER -> depth)

\* The inner loop of extract_strings: scans a literal opened by quote from
\* position i, building its unescaped value.
RECURSIVE ScanString(_, _, _, _)
ScanString(code, i, quote, value) ==
    IF i > Len(code) THEN [terminated |-> FALSE, i |-> i, value |-> value]
    ELSE LET ch == code[i]
         IN  IF ch = "\\"
             THEN IF i + 1 <= Len(code)
                  THEN ScanString(code, i + 2, quote,
                                  Append(value, IF quote # BackTick THEN EscapeMap(code[i + 1])
                                                ELSE code[i + 1]))
                  ELSE ScanString(code, i + 2, quote, value)
             ELSE IF ch = quote
             THEN [terminated |-> TRUE, i |-> i + 1, value |-> value]
             ELSE IF quote = BackTick /\ ch = "$" /\ i + 1 <= Len(code) /\ code[i + 1] = "{"
             THEN ScanString(code, SkipExpr(code, i + 2, 1), quote,
                             value \o <<"$", "{", ".", ".", ".", "}">>)
             ELSE ScanString(code, i + 1, quote, Append(value, ch))

\* Skips a // comment: the position of the line end.
RECURSIVE SkipLine(_, _)
SkipLine(code, i) ==
    IF i > Len(code) \/ code[i] = "\n" THEN i ELSE SkipLine(code, i + 1)

\* Skips a /* comment: the position after its end, or the end of the code.
RECURSIVE SkipBlock(_, _)
SkipBlock(code, i) ==
    IF i + 1 > Len(code) THEN Len(code) + 1
    ELSE IF code[i] = "*" /\ code[i + 1] = "/" THEN i + 2
    ELSE SkipBlock(code, i + 1)

\* extract_strings: the terminated literals, with their span (start at the
\* opening quote, end after the closing quote), value and quote.
RECURSIVE ScanCode(_, _, _)
ScanCode(code, i, tokens) ==
    IF i > Len(code) THEN tokens
    ELSE LET c == code[i]
             next == IF i + 1 <= Len(code) THEN code[i + 1] ELSE "none"
         IN  IF c = "/" /\ next = "/" THEN ScanCode(code, SkipLine(code, i + 2), tokens)
             ELSE IF c = "/" /\ next = "*" THEN ScanCode(code, SkipBlock(code, i + 2), tokens)
             ELSE IF c \in Quotes
             THEN LET r == ScanString(code, i + 1, c, <<>>)
                  IN  ScanCode(code, r.i,
                               IF r.terminated
                               THEN Append(tokens, [start |-> i, end |-> r.i,
                                                    value |-> r.value, quote |-> c])
                               ELSE tokens)
             ELSE ScanCode(code, i + 1, tokens)

extract_strings(js_code) == ScanCode(js_code, 1, <<>>)

\* str.strip() for whitespace.
RECURSIVE LStrip(_, _)
LStrip(t, chars) == IF t # <<>> /\ Head(t) \in chars THEN LStrip(Tail(t), chars) ELSE t
RECURSIVE RStrip(_, _)
RStrip(t, chars) ==
    IF t # <<>> /\ t[Len(t)] \in chars THEN RStrip(SubSeq(t, 1, Len(t) - 1), chars) ELSE t
Strip(t, chars) == RStrip(LStrip(t, chars), chars)

Has(t, c) == \E i \in 1..Len(t) : t[i] = c

\* _is_technical_string, for texts of letters, spaces, quotes and
\* backslashes: of its tests only the file-path test can hold.
_is_technical_string(value) ==
    LET v == Strip(value, Whitespace)
    IN  (Has(v, "/") \/ Has(v, "\\")) /\ ~Has(v, " ")

\* _is_in_comparison: the literal follows ==, !=, === or !==.
RECURSIVE BeforeBlanks(_, _)
BeforeBlanks(code, i) ==
    IF i >= 1 /\ code[i] \in {" ", "\t"} THEN BeforeBlanks(code, i - 1) ELSE i

_is_in_comparison(js_code, string_start) ==
    LET i == BeforeBlanks(js_code, string_start - 1)
    IN  /\ i >= 2
        /\ js_code[i] = "="
        /\ js_code[i - 1] \in {"=", "!"}

\* extract_translatable_strings: the literals that look like text.
Translatable(js_code, tok) ==
    /\ Strip(tok.value, Whitespace) # <<>>
    /\ Len(Strip(tok.value, Whitespace)) >= 2
    /\ ~_is_technical_string(tok.value)
    /\ ~_is_in_comparison(js_code, tok.start)
    /\ Has(tok.value, " ") \/ Len(tok.value) >= 4

extract_translatable_strings(js_code) ==
    SelectSeq(extract_strings(js_code), LAMBDA tok : Translatable(js_code, tok))

\* is_safe_to_translate(text, is_dialogue=True), for texts of letters,
\* spaces, quotes and backslashes: the text is not blank once quotes and
\* whitespace are stripped, is not a path and is not a one-letter word.
is_safe_to_translate(text) ==
    LET trimmed == Strip(text, Whitespace \cup (Quotes \ {BackTick}))
    IN  /\ trimmed # <<>>
        /\ ~(Has(trimmed, "\\") /\ ~Has(trimmed, " "))
        /\ ~(~Has(trimmed, " ") /\ Len(trimmed) < 2)

\* The escape of one character of the value.
EscapeChar(c, quote) ==
    CASE c = "\\" -> <<"\\", "\\">>
      [] c = quote /\ quote \in Quotes -> <<"\\", c>>
      [] c = "\n" -> <<"\\", "n">>
      [] c = "\r" -> <<"\\", "r">>
      [] c = "\t" -> <<"\\", "t">>
      [] OTHER -> <<c>>

\* _escape_for_js: the value with its backslashes doubled, then its quote
\* characters, in a template literal its ${, and its line breaks and tabs
\* escaped.
RECURSIVE _escape_for_js(_, _)
_escape_for_js(value, quote) ==
    IF value = <<>> THEN <<>>
    ELSE IF quote = BackTick /\ Len(value) > 1 /\ value[1] = "$" /\ value[2] = "{"
    THEN <<"\\", "$", "{">> \o _escape_for_js(Tail(Tail(value)), quote)
    ELSE EscapeChar(Head(value), quote) \o _escape_for_js(Tail(value), quote)

\* JsonParser._is_technical_string, for texts of letters, spaces, quotes
\* and backslashes: of its tests only the one for a blank text can hold.
JsonParser_is_technical_string(text) ==
    Strip(text, Whitespace \cup (Quotes \ {BackTick})) = <<>>

\* The path JS_SRC_<idx> of _extract_from_js_source.
JsSrcPath(n) == <<"JS_SRC", n>>

\* _extract_from_js_source: idx counts from 0 over the translatable
\* literals; a literal is extracted when it reads as a sentence.
_extract_from_js_source(text) ==
    LET strings == extract_translatable_strings(text)
        Taken(k) ==
            LET t == strings[k].value
            IN  /\ t # <<>>
                /\ Has(Strip(t, Whitespace), " ") /\ Len(Strip(t, Whitespace)) > 3
                /\ is_safe_to_translate(t)
                /\ ~JsonParser_is_technical_string(t)
        RECURSIVE Collect(_)
        Collect(k) ==
            IF k > Len(strings) THEN <<>>
            ELSE (IF Taken(k) THEN <<[path |-> JsSrcPath(k - 1), text |-> strings[k].value]>>
                  ELSE <<>>) \o Collect(k + 1)
    IN  Collect(1)

\* _apply_to_js_source: from the last literal to the first, the span of a
\* literal whose path has a non-empty translation is replaced by the
\* escaped translation.
_apply_to_js_source(text, trans) ==
    LET strings == extract_translatable_strings(text)
        RECURSIVE Splice(_, _)
        Splice(k, result) ==
            IF k = 0 THEN result
            ELSE LET path == JsSrcPath(k - 1)
                 IN  IF path \in DOMAIN trans /\ trans[path] # <<>>
                     THEN Splice(k - 1,
                                 SubSeq(result, 1, strings[k].start - 1)
                                 \o _escape_for_js(trans[path], strings[k].quote)
                                 \o SubSeq(result, strings[k].end, Len(result)))
                     ELSE Splice(k - 1, result)
    IN  Splice(Len(strings), text)

\* The texts of at most n characters.
RECURSIVE TextsUpTo(_)
TextsUpTo(n) ==
    IF n = 0 THEN {<<>>}
    ELSE LET shorter == TextsUpTo(n - 1)
         IN  shorter \cup {Append(t, c) : t \in shorter, c \in SrcChars}

NoResult == [returned |-> "nothing", text |-> <<>>]

\* A JS source file other than plugins.js, as read by f.read().strip().
JsInit ==
    /\ js_pc = "read"
    /\ content \in {t \in TextsUpTo(MaxSrcLen) : Strip(t, Whitespace) = t}
    /\ extracted = <<>>
    /\ translations = <<>>
    /\ js_result = NoResult

\* No JS source file is being followed.
JsIdle ==
    /\ js_pc = "idle"
    /\ content = <<>>
    /\ extracted = <<>>
    /\ translations = <<>>
    /\ js_result = NoResult

\* The map that gives every extracted path its own extracted text.
IdentityMap(entries) ==
    [p \in {entries[k].path : k \in 1..Len(entries)} |->
        entries[CHOOSE k \in 1..Len(entries) : entries[k].path = p].text]

\* extract_text on a JS source file.
JsExtractText ==
    /\ UNCHANGED notJs
    /\ js_pc = "read"
    /\ extracted' = IF content = <<>> THEN <<>> ELSE _extract_from_js_source(content)
    /\ js_pc' = "extracted"
    /\ UNCHANGED <<content, translations, js_result>>

\* apply_translation on a JS source file: nothing for an empty file,
\* otherwise the text _apply_to_js_source returns.  The map is the identity
\* map, or the identity map with one entry left out.
JsApplyTranslation ==
    /\ UNCHANGED notJs
    /\ js_pc = "extracted"
    /\ \E drop \in {0} \cup (1..Len(extracted)) :
           LET id == IdentityMap(extracted)
           IN  translations' = [p \in {q \in DOMAIN id : drop = 0 \/ q # extracted[drop].path}
                                 |-> id[p]]
    /\ js_result' = IF content = <<>> THEN [returned |-> "None", text |-> <<>>]
                    ELSE [returned |-> "str",
                          text |-> _apply_to_js_source(content, translations')]
    /\ js_pc' = "applied"
    /\ UNCHANGED <<content, extracted>>

JsNext == JsExtractText \/ JsApplyTranslation

-----------------------------------------------------------------------------
(***************************************************************************)
(* JsonParser on a JSON data file.  A dict key and a path are sequences of *)
(* pieces: a piece is a word, a dot, or one of the two escape tokens of    *)
(* the path language.  A tree node is a string or a dict.                  *)
(***************************************************************************)
PATH_DOT_ESCAPE == "__DOT__"
PATH_DOT_ESCAPE_ESC == "__DOT_ESC__"
Dot == "."

\* str.replace on the pieces of a key.
ReplacePiece(key, old, new) == [i \in DOMAIN key |-> IF key[i] = old THEN new ELSE key[i]]

_escape_path_key(key) ==
    ReplacePiece(ReplacePiece(key, PATH_DOT_ESCAPE, PATH_DOT_ESCAPE_ESC), Dot, PATH_DOT_ESCAPE)

_unescape_path_key(key) ==
    ReplacePiece(ReplacePiece(key, PATH_DOT_ESCAPE_ESC, PATH_DOT_ESCAPE), PATH_DOT_ESCAPE, Dot)

NoItems == [k \in {} |-> 0]
Str(text) == [type |-> "str", s |-> text, items |-> NoItems]
Dict(f) == [type |-> "dict", s |-> "", items |-> f]

\* f"{a}.{b}"
Dotted(a, b) == a \o <<Dot>> \o b

\* _process_dict with _walk: the (path, text) pairs of the subtree under
\* current_path, each with the position (the keys from the root) it was
\* read at.  The value under the key name is extracted; other values are
\* walked.
RECURSIVE _walk(_, _, _)
_walk(node, current_path, pos) ==
    IF node.type # "dict" THEN {}
    ELSE UNION {
        LET safe_key == _escape_path_key(key)
            new_path == IF current_path # <<>> THEN Dotted(current_path, safe_key)
                        ELSE safe_key
            value == node.items[key]
        IN  IF key = <<"name">>
            THEN {[path |-> new_path, text |-> value.s, pos |-> Append(pos, key)]}
            ELSE _walk(value, new_path, Append(pos, key))
        : key \in DOMAIN node.items}

\* clean_path.split('.') without its empty segments.
RECURSIVE SplitPath(_, _)
SplitPath(path, seg) ==
    IF path = <<>> THEN (IF seg = <<>> THEN <<>> ELSE <<seg>>)
    ELSE IF Head(path) = Dot
         THEN (IF seg = <<>> THEN <<>> ELSE <<seg>>) \o SplitPath(Tail(path), <<>>)
         ELSE SplitPath(Tail(path), Append(seg, Head(path)))

Unresolved == [found |-> FALSE, pos |-> <<>>]

\* The traversal of _set_value_at_path from segment i of keys, ref being
\* the node reached along pos: the position whose value is assigned, or
\* none when the method returns without assigning.
RECURSIVE ResolveFrom(_, _, _, _)
ResolveFrom(ref, keys, i, pos) ==
    LET n == Len(keys)
        has(k) == k \in DOMAIN ref.items
        direct_key == _unescape_path_key(keys[i])
        \* for j in range(i + 1, len(keys) - 1): legacy dotted keys
        RECURSIVE MergeForward(_, _)
        MergeForward(merged, j) ==
            IF j > n - 1 THEN Unresolved
            ELSE LET m == Dotted(merged, _unescape_path_key(keys[j]))
                 IN  IF has(m) THEN ResolveFrom(ref.items[m], keys, j + 1, Append(pos, m))
                     ELSE MergeForward(m, j + 1)
        \* while idx >= 0: merging the last key with the previous segments
        RECURSIVE MergeBackward(_, _)
        MergeBackward(merged, k) ==
            IF k < 1 THEN direct_key
            ELSE LET m == Dotted(_unescape_path_key(keys[k]), merged)
                 IN  IF has(m) THEN m ELSE MergeBackward(m, k - 1)
    IN  IF ref.type # "dict" THEN Unresolved
        ELSE IF i < n
        THEN IF has(direct_key)
             THEN ResolveFrom(ref.items[direct_key], keys, i + 1, Append(pos, direct_key))
             ELSE MergeForward(direct_key, i + 1)
        ELSE LET last_key == IF has(direct_key) THEN direct_key
                             ELSE MergeBackward(direct_key, n - 1)
             IN  IF has(last_key) THEN [found |-> TRUE, pos |-> Append(pos, last_key)]
                 ELSE Unresolved

\* The tree with the node at pos replaced.
RECURSIVE PutAt(_, _, _)
PutAt(node, pos, new) ==
    IF pos = <<>> THEN new
    ELSE Dict([node.items EXCEPT ![Head(pos)] = PutAt(@, Tail(pos), new)])

\* _set_value_at_path on a tree of dicts, for values that are not
\* $gameVariables.setValue scripts.
_set_value_at_path(tree, path, value) ==
    LET keys == SplitPath(path, <<>>)
        r == IF keys = <<>> THEN Unresolved ELSE ResolveFrom(tree, keys, 1, <<>>)
    IN  IF r.found THEN PutAt(tree, r.pos, Str(value)) ELSE tree

\* The texts of the model.  Sanitized is what the repair of
\* apply_translation, re.sub(r'\\ \s+([a-zA-Z{}])', r'\\\1', text),
\* makes of Spaced; it leaves the other texts as they are.
Plain == "Potion"
Translated == "Trank"
Spaced == "\\  n"
Sanitized == "\\n"
Values == {"", Translated, Spaced}

Sanitize(trans_text) == IF trans_text = Spaced THEN Sanitized ELSE trans_text

\* apply_translation with a one-entry map whose path has no @ marker: the
\* direct update, skipped for an empty text.
apply_translation_json(tree, path, trans_text) ==
    LET text == Sanitize(trans_text)
    IN  IF text = "" THEN tree ELSE _set_value_at_path(tree, path, text)

\* The dict keys of the model: name, and the keys of at most MaxKeyLen
\* pieces.
KeyPieces == {"k", Dot, PATH_DOT_ESCAPE, PATH_DOT_ESCAPE_ESC}

RECURSIVE KeysUpTo(_)
KeysUpTo(n) ==
    IF n = 0 THEN {<<>>}
    ELSE LET shorter == KeysUpTo(n - 1)
         IN  shorter \cup {Append(k, c) : k \in shorter, c \in KeyPieces}

Keys == KeysUpTo(MaxKeyLen) \cup {<<"name">>}

\* The objects of a data file: a string, or a record with a name.
Members == {Str(Plain), Dict([k \in {<<"name">>} |-> Str(Plain)])}

\* The parsed trees of the model: an object of at most MaxKeys members.
Trees ==
    UNION {{Dict(f) : f \in [S -> Members]} :
           S \in {T \in SUBSET Keys : Cardinality(T) <= MaxKeys}}

JsonInit ==
    /\ json_pc = "read"
    /\ data \in Trees
    /\ json_extracted = {}
    /\ json_path = <<>>
    /\ json_value = ""
    /\ json_result = data

\* No JSON file is being followed.
JsonIdle ==
    /\ json_pc = "idle"
    /\ data = Dict(NoItems)
    /\ json_extracted = {}
    /\ json_path = <<>>
    /\ json_value = ""
    /\ json_result = data

\* extract_text on a JSON data file.
JsonExtractText ==
    /\ UNCHANGED notJson
    /\ json_pc = "read"
    /\ json_extracted' = _walk(data, <<>>, <<>>)
    /\ json_pc' = "extracted"
    /\ UNCHANGED <<data, json_path, json_value, json_result>>

\* apply_translation(F, {p: v}) for an extracted path p and a text v.
JsonApplyTranslation ==
    /\ UNCHANGED notJson
    /\ json_pc = "extracted"
    /\ \E e \in json_extracted, v \in Values :
           /\ json_path' = e.path
           /\ json_value' = v
           /\ json_result' = apply_translation_json(data, e.path, v)
    /\ json_pc' = "applied"
    /\ UNCHANGED <<data, json_extracted>>

JsonNext == JsonExtractText \/ JsonApplyTranslation

\* No helper call is being followed.
FnIdle ==
    /\ fn_pc = "idle"
    /\ fn_in = <<>>
    /\ fn_out = <<>>
    /\ fn_disk = <<>>

\* Nothing but a helper call is being followed.
OnlyFn == PipeIdle /\ WriteIdle /\ JsIdle /\ JsonIdle

-----------------------------------------------------------------------------
(***************************************************************************)
(* js/plugins.js through JsonParser and save_file.  The file is the text   *)
(* up to the list (prefix), the list of plugins, and the text after it.   *)
(* A plugin is one parameter: its key and its value.  A written file is a  *)
(* sequence of parts: a text, or what json.dump wrote for a value.         *)
(***************************************************************************)
Prefixes == {"var $plugins = ", "var $plugins =\n", "// Generated by RPG Maker.\nvar $plugins =\n"}
Suffixes == {"", ";", ";\n// end"}

HelpText == [key |-> "Help Text", value |-> "Hello world"]
FontName == [key |-> "Font Name", value |-> "GameFont"]

RECURSIVE PluginLists(_)
PluginLists(n) ==
    IF n = 0 THEN {<<>>}
    ELSE LET shorter == PluginLists(n - 1)
         IN  shorter \cup {Append(l, q) : l \in shorter, q \in {HelpText, FontName}}

\* _extract_from_plugins_js: the indexes (from 0) of the plugins whose
\* parameter _process_dict extracts; a short font name is skipped.
PluginPaths(plugins) == {i - 1 : i \in {j \in 1..Len(plugins) : plugins[j].key = "Help Text"}}

\* The plugin list after the direct updates and the font override of
\* apply_translation.
TranslatedPlugins(plugins, trans) ==
    [i \in 1..Len(plugins) |->
        IF (i - 1) \in DOMAIN trans THEN [plugins[i] EXCEPT !.value = trans[i - 1]]
        ELSE IF plugins[i] = FontName THEN [plugins[i] EXCEPT !.value = "Arial, sans-serif"]
        ELSE plugins[i]]

TextPart(t) == [kind |-> "text", val |-> t]

\* json.dump(value, f): the literal of a list, or the quoted and escaped
\* literal of a str.
JsonDump(value) ==
    IF value.type = "str" THEN [kind |-> "string literal", val |-> value.parts]
    ELSE [kind |-> "list literal", val |-> value.plugins]

\* apply_translation on plugins.js: the str
\* self._js_prefix + new_json_str + self._js_suffix.
apply_translation_plugins(file, trans) ==
    [type |-> "str",
     parts |-> <<TextPart(file.prefix),
                 [kind |-> "list literal", val |-> TranslatedPlugins(file.plugins, trans)],
                 TextPart(file.suffix)>>]

PluginsInit ==
    /\ fn_pc = "plugins.js read"
    /\ fn_in \in [prefix : Prefixes,
                  plugins : PluginLists(MaxPlugins) \ {<<>>},
                  suffix : Suffixes]
    /\ fn_out = <<>>
    /\ fn_disk = <<>>

\* extract_text on plugins.js.
PluginsExtractText ==
    /\ UNCHANGED notFn
    /\ fn_pc = "plugins.js read"
    /\ fn_pc' = "plugins.js extracted"
    /\ fn_out' = [extracted |-> PluginPaths(fn_in.plugins), changes |-> <<>>]
    /\ UNCHANGED <<fn_in, fn_disk>>

\* save_file on plugins.js with translations for some extracted paths:
\* apply_translation, then the .js branch that writes prefix, json.dump
\* of new_data and suffix.
PluginsSaveFile ==
    /\ UNCHANGED notFn
    /\ fn_pc = "plugins.js extracted"
    /\ \E paths \in (SUBSET fn_out.extracted) \ {{}} :
           LET trans == [i \in paths |-> "Hallo Welt"]
               new_data == apply_translation_plugins(fn_in, trans)
           IN  /\ fn_out' = [fn_out EXCEPT !.changes = trans]
               /\ fn_disk' = <<TextPart(fn_in.prefix), JsonDump(new_data),
                               TextPart(fn_in.suffix)>>
    /\ fn_pc' = "plugins.js saved"
    /\ UNCHANGED fn_in

PluginsNext == PluginsExtractText \/ PluginsSaveFile

-----------------------------------------------------------------------------
(***************************************************************************)
(* The save workers and the paths they write: the backup path chosen by    *)
(* create_backup, the temporary path of safe_write and the game file.      *)
(* A path is a directory, a file name and, for a backup, the timestamp     *)
(* and the counter put into the name.                                      *)
(***************************************************************************)
GamePath(dir, name) == [dir |-> dir, name |-> name, kind |-> "file", ts |-> 0, n |-> 0]

\* The files _collect_files can hand to the stage: files of the data
\* folder and of the locales folder.
GamePaths == {GamePath(d, nm) : d \in {"data", "locales"}, nm \in {"A.json", "B.json"}}

\* temp_path of safe_write: .{file_name}.tmp next to the file.
TempPath(file) == [file EXCEPT !.kind = "tmp"]

\* backup_path of create_backup before the existence check: in backup_dir
\* when the setting is given, else in .rpgm_backup next to the file, under
\* the name {name}_{timestamp}{ext}; n counts the _{counter} suffixes.
BackupPath(file, backup_dir, ts, n) ==
    [dir |-> IF backup_dir THEN "backup_dir"
             ELSE IF file.dir = "data" THEN "data/.rpgm_backup" ELSE "locales/.rpgm_backup",
     name |-> file.name, kind |-> "backup", ts |-> ts, n |-> n]

\* The existence check of create_backup: the first of the candidate paths
\* that is not on disk.
RECURSIVE FreeBackupPath(_, _, _, _, _)
FreeBackupPath(file, backup_dir, ts, n, existing) ==
    IF BackupPath(file, backup_dir, ts, n) \in existing
    THEN FreeBackupPath(file, backup_dir, ts, n + 1, existing)
    ELSE BackupPath(file, backup_dir, ts, n)

Savers == 1..NumSavers
NoPath == GamePath("", "")
Written == {r.path : r \in fn_disk}

\* executor.map(save_file, file_updates.keys()): one worker per key, the
\* keys being different paths.
SaveInit ==
    /\ fn_pc = "save stage"
    /\ fn_in \in [files : {fs \in [Savers -> GamePaths] :
                               \A v, w \in Savers : v # w => fs[v] # fs[w]},
                  backup_dir : BOOLEAN]
    /\ fn_out = [clock |-> 0, pc |-> [w \in Savers |-> "start"],
                 path |-> [w \in Savers |-> NoPath]]
    /\ fn_disk = {}

\* datetime.now() moves to the next second.
ClockTick ==
    /\ UNCHANGED notFn
    /\ fn_pc = "save stage"
    /\ fn_out.clock < MaxClock
    /\ fn_out' = [fn_out EXCEPT !.clock = @ + 1]
    /\ UNCHANGED <<fn_pc, fn_in, fn_disk>>

\* create_backup up to the copy: the name with the timestamp, and the
\* existence check.
ChooseBackupPath(w) ==
    /\ UNCHANGED notFn
    /\ fn_pc = "save stage"
    /\ fn_out.pc[w] = "start"
    /\ fn_out' = [fn_out EXCEPT
                    !.pc[w] = "copy",
                    !.path[w] = FreeBackupPath(fn_in.files[w], fn_in.backup_dir,
                                               fn_out.clock, 0, Written)]
    /\ UNCHANGED <<fn_pc, fn_in, fn_disk>>

\* shutil.copy2 opens the backup path and starts to write it.
CopyBegin(w) ==
    /\ UNCHANGED notFn
    /\ fn_pc = "save stage"
    /\ fn_out.pc[w] = "copy"
    /\ fn_out' = [fn_out EXCEPT !.pc[w] = "copying"]
    /\ fn_disk' = fn_disk \cup {[path |-> fn_out.path[w], by |-> w]}
    /\ UNCHANGED <<fn_pc, fn_in>>

\* The copy ends.  When it raised, create_backup returns None and save_file
\* returns; else apply_translation runs and safe_write opens the temporary
\* file.
CopyEnd(w) ==
    /\ UNCHANGED notFn
    /\ fn_pc = "save stage"
    /\ fn_out.pc[w] = "copying"
    /\ \/ /\ fn_out' = [fn_out EXCEPT !.pc[w] = "returned", !.path[w] = NoPath]
          /\ UNCHANGED fn_disk
       \/ /\ fn_out' = [fn_out EXCEPT !.pc[w] = "writing",
                                       !.path[w] = TempPath(fn_in.files[w])]
          /\ fn_disk' = fn_disk \cup {[path |-> TempPath(fn_in.files[w]), by |-> w]}
    /\ UNCHANGED <<fn_pc, fn_in>>

\* safe_write closes the temporary file and os.replace puts it in the place
\* of the game file.
ReplaceFile(w) ==
    /\ UNCHANGED notFn
    /\ fn_pc = "save stage"
    /\ fn_out.pc[w] = "writing"
    /\ fn_out' = [fn_out EXCEPT !.pc[w] = "saved", !.path[w] = NoPath]
    /\ fn_disk' = {r \in fn_disk : r.path # TempPath(fn_in.files[w])}
                    \cup {[path |-> fn_in.files[w], by |-> w]}
    /\ UNCHANGED <<fn_pc, fn_in>>

SaveNext ==
    \/ ClockTick
    \/ \E w \in Savers : ChooseBackupPath(w)
    \/ \E w \in Savers : CopyBegin(w)
    \/ \E w \in Savers : CopyEnd(w)
    \/ \E w \in Savers : ReplaceFile(w)

(***************************************************************************)
(* GoogleTranslator.translate_batch with its endpoint requests             *)
(* (translator.py).  One call is followed: fn_in holds the settings and    *)
(* the requests, fn_out.tasks the process_slice coroutines, fn_out.results *)
(* the result list.                                                        *)
(***************************************************************************)
Texts == {"a", "b"}

\* unique_texts: the texts of the requests in the order of first occurrence.
RECURSIVE UniqueTexts(_, _, _)
UniqueTexts(reqs, i, acc) ==
    IF i > Len(reqs)
    THEN acc
    ELSE UniqueTexts(reqs, i + 1,
                     IF \E j \in 1..Len(acc) : acc[j] = reqs[i]
                     THEN acc ELSE Append(acc, reqs[i]))

\* _prepare_slices on the unique texts (one character each).
RECURSIVE SliceTexts(_, _, _, _, _, _)
SliceTexts(texts, i, current_batch, current_chars, acc, bs) ==
    IF i > Len(texts)
    THEN (IF current_batch # <<>> THEN Append(acc, current_batch) ELSE acc)
    ELSE LET text_len == 1
             overhead == IF current_batch # <<>> THEN TokenBatchSeparatorLen ELSE 0
             flush == \/ Len(current_batch) >= bs
                      \/ (current_chars + text_len + overhead > TRANSLATOR_MAX_SAFE_CHARS
                          /\ current_batch # <<>>)
         IN  IF flush
             THEN SliceTexts(texts, i + 1, <<texts[i]>>, text_len,
                             Append(acc, current_batch), bs)
             ELSE SliceTexts(texts, i + 1, Append(current_batch, texts[i]),
                             current_chars + text_len + overhead, acc, bs)

batches_of_text_slices ==
    SliceTexts(UniqueTexts(fn_in.requests, 1, <<>>), 1, <<>>, 0, <<>>, fn_in.batch_size)

\* The endpoints one _try_translate call races.
n_endpoints == IF fn_in.use_multi_endpoint THEN fn_in.racing_endpoints ELSE 1

\* A call_endpoint coroutine at its first attempt, and a _try_translate call
\* that has just created its call_endpoint tasks.
NewCall == [attempt |-> 1, at |-> "start"]
NewTry == [stage |-> "race", calls |-> [e \in 1..n_endpoints |-> NewCall],
           lingva |-> 0, res |-> FALSE]

\* A _try_translate call that has returned (parts: res, or None); its
\* call_endpoint tasks are over or cancelled.
Returned(res) == [stage |-> "returned", calls |-> <<>>, lingva |-> 0, res |-> res]

Tasks == fn_out.tasks
SliceIds == 1..Len(Tasks)
TryIds(s) == 1..Len(Tasks[s].tries)

\* The process_slice coroutines inside "async with sem".
Holding == {s \in SliceIds : Tasks[s].pc \in {"batch", "single"}}

\* The HTTP requests a _try_translate call has in flight: the session.get of
\* its call_endpoint tasks and the one of the Lingva fallback.
TryInFlight(t) ==
    Cardinality({e \in 1..Len(t.calls) : t.calls[e].at = "get"})
      + (IF t.stage = "lingva" THEN 1 ELSE 0)

RECURSIVE SumInFlight(_, _)
SumInFlight(tries, i) ==
    IF i > Len(tries) THEN 0 ELSE TryInFlight(tries[i]) + SumInFlight(tries, i + 1)

RECURSIVE RequestsInFlight(_)
RequestsInFlight(s) ==
    IF s > Len(Tasks) THEN 0
    ELSE SumInFlight(Tasks[s].tries, 1) + RequestsInFlight(s + 1)

\* A TranslationResult as translate_batch creates it.
NotStarted == [success |-> FALSE, error |-> "Processing not started"]

TranslateBatchInit ==
    /\ fn_pc = "translate_batch"
    /\ fn_in \in [requests : UNION {[1..n -> Texts] : n \in 0..MaxRequests},
                  concurrency : 1..Concurrency,
                  batch_size : 1..MaxBatch,
                  use_multi_endpoint : BOOLEAN,
                  enable_lingva_fallback : BOOLEAN,
                  max_retries : 1..MaxRetries,
                  racing_endpoints : 1..MaxRacing]
    \* (texts are named in the order of their first occurrence)
    /\ UniqueTexts(fn_in.requests, 1, <<>>) \in {<<>>, <<"a">>, <<"a", "b">>}
    /\ fn_out = [tasks |-> [s \in 1..Len(batches_of_text_slices) |->
                              [pc |-> "waiting", tries |-> <<>>, gets |-> 0,
                               got |-> <<>>, raised |-> 0]],
                 results |-> [r \in 1..Len(fn_in.requests) |-> NotStarted]]
    /\ fn_disk = <<>>

\* process_slice passes "async with sem", protects its texts and calls
\* _try_translate on the joined batch.
AcquireSem(s) ==
    /\ UNCHANGED notFn
    /\ fn_pc = "translate_batch"
    /\ Tasks[s].pc = "waiting"
    /\ Cardinality(Holding) < fn_in.concurrency
    /\ fn_out' = [fn_out EXCEPT !.tasks[s].pc = "batch",
                                !.tasks[s].tries = <<NewTry>>]
    /\ UNCHANGED <<fn_pc, fn_in, fn_disk>>

\* call_endpoint sends its request: session.get.
CallSend(s, i, e) ==
    /\ UNCHANGED notFn
    /\ fn_pc = "translate_batch"
    /\ Tasks[s].tries[i].stage = "race"
    /\ Tasks[s].tries[i].calls[e].at = "start"
    /\ fn_out' = [fn_out EXCEPT !.tasks[s].tries[i].calls[e].at = "get",
                                !.tasks[s].gets = @ + 1]
    /\ UNCHANGED <<fn_pc, fn_in, fn_disk>>

\* The request of call_endpoint ends: with the expected number of parts
\* (the coroutine returns them), or with an empty or mismatching answer,
\* another status, a timeout or another exception (the next attempt, or
\* None after max_retries attempts).
CallRespond(s, i, e) ==
    /\ UNCHANGED notFn
    /\ fn_pc = "translate_batch"
    /\ Tasks[s].tries[i].stage = "race"
    /\ Tasks[s].tries[i].calls[e].at = "get"
    /\ \/ fn_out' = [fn_out EXCEPT !.tasks[s].tries[i].calls[e].at = "parts"]
       \/ fn_out' = [fn_out EXCEPT !.tasks[s].tries[i].calls[e] =
                       IF @.attempt < fn_in.max_retries
                       THEN [attempt |-> @.attempt + 1, at |-> "start"]
                       ELSE [attempt |-> @.attempt, at |-> "none"]]
    /\ UNCHANGED <<fn_pc, fn_in, fn_disk>>

\* The asyncio.wait loop of _try_translate: a task returned parts (the other
\* tasks are cancelled and the parts returned), or every task returned None
\* (the first Lingva request is sent, or None is returned).
RaceDone(s, i) ==
    /\ UNCHANGED notFn
    /\ fn_pc = "translate_batch"
    /\ Tasks[s].tries[i].stage = "race"
    /\ LET t == Tasks[s].tries[i]
           E == 1..Len(t.calls)
       IN  \/ /\ \E e \in E : t.calls[e].at = "parts"
              /\ fn_out' = [fn_out EXCEPT !.tasks[s].tries[i] = Returned(TRUE)]
           \/ /\ \A e \in E : t.calls[e].at = "none"
              /\ fn_in.enable_lingva_fallback
              /\ fn_out' = [fn_out EXCEPT !.tasks[s].tries[i].stage = "lingva",
                                          !.tasks[s].tries[i].lingva = 1,
                                          !.tasks[s].gets = @ + 1]
           \/ /\ \A e \in E : t.calls[e].at = "none"
              /\ ~fn_in.enable_lingva_fallback
              /\ fn_out' = [fn_out EXCEPT !.tasks[s].tries[i] = Returned(FALSE)]
    /\ UNCHANGED <<fn_pc, fn_in, fn_disk>>

\* The request to a Lingva instance ends: with the expected number of parts,
\* or not (the second request, or None after it).
LingvaRespond(s, i) ==
    /\ UNCHANGED notFn
    /\ fn_pc = "translate_batch"
    /\ Tasks[s].tries[i].stage = "lingva"
    /\ \/ fn_out' = [fn_out EXCEPT !.tasks[s].tries[i] = Returned(TRUE)]
       \/ /\ Tasks[s].tries[i].lingva < LingvaTries
          /\ fn_out' = [fn_out EXCEPT !.tasks[s].tries[i].lingva = @ + 1,
                                      !.tasks[s].gets = @ + 1]
       \/ /\ Tasks[s].tries[i].lingva >= LingvaTries
          /\ fn_out' = [fn_out EXCEPT !.tasks[s].tries[i] = Returned(FALSE)]
    /\ UNCHANGED <<fn_pc, fn_in, fn_disk>>

\* A re-map loop that takes every translated text as restored.
RemapUnvalidated(s, translated, valid, raise_at) ==
    LET slice == batches_of_text_slices[s]
        InSlice(txt) == \E j \in 1..Len(slice) : slice[j] = txt
        Pos(txt) == CHOOSE j \in 1..Len(slice) : slice[j] = txt
    IN  [fn_out EXCEPT
           !.tasks[s].pc = "done",
           !.tasks[s].tries = <<>>,
           !.tasks[s].got = [j \in 1..Len(slice) |-> translated[j] /\ valid[j]],
           !.tasks[s].raised = 0,
           !.results = [r \in 1..Len(fn_in.requests) |->
                          IF InSlice(fn_in.requests[r])
                          THEN [success |-> translated[Pos(fn_in.requests[r])],
                                error |-> "None"]
                          ELSE @[r]]]

\* The re-map loop of process_slice over the texts of slice s, of which
\* translated[j] tells whether text j has a translation.  valid[j] is the
\* verdict of validate_restoration; raise_at is the text at which the loop
\* raises (0: it does not), and then the handler writes the error of every
\* result of the slice.
Remap(s, translated, valid, raise_at) ==
    LET slice == batches_of_text_slices[s]
        Pos(txt) == CHOOSE j \in 1..Len(slice) : slice[j] = txt
        InSlice(txt) == \E j \in 1..Len(slice) : slice[j] = txt
        Looped(j) == raise_at = 0 \/ j < raise_at
        After(r) ==
            LET j == Pos(fn_in.requests[r])
                res == IF ~Looped(j) THEN fn_out.results[r]
                       ELSE IF translated[j] /\ valid[j]
                            THEN [success |-> TRUE, error |-> "None"]
                       ELSE IF translated[j]
                            THEN [success |-> FALSE, error |-> "Validation Failed"]
                       ELSE [success |-> FALSE, error |-> "Translation failed"]
            IN  IF raise_at = 0 THEN res ELSE [res EXCEPT !.error = "Exception"]
    IN  [fn_out EXCEPT
           !.tasks[s].pc = "done",
           !.tasks[s].tries = <<>>,
           !.tasks[s].got = [j \in 1..Len(slice) |-> translated[j] /\ valid[j] /\ Looped(j)],
           !.tasks[s].raised = raise_at,
           !.results = [r \in 1..Len(fn_in.requests) |->
                          IF InSlice(fn_in.requests[r]) THEN After(r) ELSE @[r]]]

\* _try_translate on the batch has returned: parts (they are re-mapped and
\* the semaphore is released), or None (the individual retries start, one
\* _try_translate per text, all at once).
BatchTried(s) ==
    /\ UNCHANGED notFn
    /\ fn_pc = "translate_batch"
    /\ Tasks[s].pc = "batch"
    /\ Tasks[s].tries[1].stage = "returned"
    /\ LET n == Len(batches_of_text_slices[s])
       IN  \/ /\ Tasks[s].tries[1].res
              /\ \E valid \in [1..n -> BOOLEAN], raise_at \in 0..n :
                     fn_out' = Remap(s, [j \in 1..n |-> TRUE], valid, raise_at)
           \/ /\ ~Tasks[s].tries[1].res
              /\ fn_out' = [fn_out EXCEPT !.tasks[s].pc = "single",
                                          !.tasks[s].tries = [j \in 1..n |-> NewTry]]
    /\ UNCHANGED <<fn_pc, fn_in, fn_disk>>

\* asyncio.gather over retry_single has returned: the parts found are
\* re-mapped and the semaphore is released.
SingleTried(s) ==
    /\ UNCHANGED notFn
    /\ fn_pc = "translate_batch"
    /\ Tasks[s].pc = "single"
    /\ \A i \in TryIds(s) : Tasks[s].tries[i].stage = "returned"
    /\ LET n == Len(batches_of_text_slices[s])
       IN  \E valid \in [1..n -> BOOLEAN], raise_at \in 0..n :
               fn_out' = Remap(s, [j \in 1..n |-> Tasks[s].tries[j].res], valid, raise_at)
    /\ UNCHANGED <<fn_pc, fn_in, fn_disk>>

\* asyncio.gather over the process_slice tasks has returned (or there was no
\* request): translate_batch returns results.
GatherReturn ==
    /\ UNCHANGED notFn
    /\ fn_pc = "translate_batch"
    /\ \A s \in SliceIds : Tasks[s].pc = "done"
    /\ fn_pc' = "returned"
    /\ UNCHANGED <<fn_in, fn_out, fn_disk>>

TranslateBatchNext ==
    \/ \E s \in SliceIds : AcquireSem(s)
    \/ \E s \in SliceIds : \E i \in TryIds(s) :
          \E e \in 1..Len(Tasks[s].tries[i].calls) : CallSend(s, i, e)
    \/ \E s \in SliceIds : \E i \in TryIds(s) :
          \E e \in 1..Len(Tasks[s].tries[i].calls) : CallRespond(s, i, e)
    \/ \E s \in SliceIds : \E i \in TryIds(s) : RaceDone(s, i)
    \/ \E s \in SliceIds : \E i \in TryIds(s) : LingvaRespond(s, i)
    \/ \E s \in SliceIds : BatchTried(s)
    \/ \E s \in SliceIds : SingleTried(s)
    \/ GatherReturn

(***************************************************************************)
(* TextMerger on texts (text_merger.py): a text is a sequence of symbols,  *)
(* and the line-break token and its legacy form are one symbol each.       *)
(***************************************************************************)
TOKEN_LINE_BREAK == "|||XLB|||"
LegacyLineBreak == "<XRPYX_LB>"
MergeChars == {"a", " ", "\n", TOKEN_LINE_BREAK, LegacyLineBreak}

RECURSIVE LinesUpTo(_)
LinesUpTo(n) ==
    IF n = 0 THEN {<<>>}
    ELSE LinesUpTo(n - 1) \cup {Append(t, c) : t \in LinesUpTo(n - 1), c \in MergeChars}

RECURSIVE SumSeqLen(_)
SumSeqLen(block) ==
    IF block = <<>> THEN 0 ELSE Len(Head(block)) + SumSeqLen(Tail(block))

\* "\n|||XLB|||\n".join of the texts of a block.
RECURSIVE JoinTexts(_)
JoinTexts(block) ==
    IF Len(block) = 1 THEN block[1]
    ELSE block[1] \o <<"\n", TOKEN_LINE_BREAK, "\n">> \o JoinTexts(Tail(block))

\* flush_block on texts: one text is a single request, several are joined
\* into a merged one.
FlushTexts(m) ==
    IF m.current_block = <<>> THEN m
    ELSE [current_block |-> <<>>,
          merged_requests |->
              Append(m.merged_requests,
                     [text |-> JoinTexts(m.current_block),
                      is_merged |-> Len(m.current_block) > 1,
                      original_entries |-> m.current_block])]

\* add on texts: blank texts are skipped; the block is flushed first when it
\* is full or the predicted size passes the limit.
AddText(m, text, bs) ==
    IF Strip(text, Whitespace) = <<>> THEN m
    ELSE LET current_char_count == SumSeqLen(m.current_block)
             separator_overhead == (Len(m.current_block) + 1) * (TokenLineBreakLen + 2)
             total_predicted == current_char_count + Len(text) + separator_overhead
             m1 == IF Len(m.current_block) >= bs
                      \/ total_predicted > TEXT_MERGER_MAX_SAFE_CHARS
                   THEN FlushTexts(m) ELSE m
         IN  [m1 EXCEPT !.current_block = Append(@, text)]

RECURSIVE AddTexts(_, _, _)
AddTexts(m, texts, bs) ==
    IF texts = <<>> THEN m ELSE AddTexts(AddText(m, Head(texts), bs), Tail(texts), bs)

\* get_requests after the add calls.
get_requests(texts, bs) ==
    FlushTexts(AddTexts([current_block |-> <<>>, merged_requests |-> <<>>],
                        texts, bs)).merged_requests

\* _normalize_line_break_tokens: a legacy token becomes the token.
_normalize_line_break_tokens(text) ==
    [i \in 1..Len(text) |-> IF text[i] = LegacyLineBreak THEN TOKEN_LINE_BREAK ELSE text[i]]

\* The pieces of text between the occurrences of symbol c.
RECURSIVE SplitAt(_, _, _, _)
SplitAt(text, c, i, piece) ==
    IF i > Len(text) THEN <<piece>>
    ELSE IF text[i] = c THEN <<piece>> \o SplitAt(text, c, i + 1, <<>>)
    ELSE SplitAt(text, c, i + 1, Append(piece, text[i]))

\* re.split(REGEX_LINE_SPLIT, text): the token takes the whitespace around it.
ReSplit(text) ==
    LET pieces == SplitAt(text, TOKEN_LINE_BREAK, 1, <<>>)
    IN  [k \in 1..Len(pieces) |->
           LET p1 == IF k > 1 THEN LStrip(pieces[k], Whitespace) ELSE pieces[k]
           IN  IF k < Len(pieces) THEN RStrip(p1, Whitespace) ELSE p1]

\* str.splitlines().
SplitLines(text) ==
    LET pieces == SplitAt(text, "\n", 1, <<>>)
    IN  IF pieces[Len(pieces)] = <<>> THEN SubSeq(pieces, 1, Len(pieces) - 1) ELSE pieces

\* _split_lines.
_split_lines(merged_text, original_entries) ==
    LET expected_count == Len(original_entries)
        text == _normalize_line_break_tokens(merged_text)
        split == IF Has(text, TOKEN_LINE_BREAK) THEN ReSplit(text) ELSE SplitLines(text)
        stripped == [k \in 1..Len(split) |-> Strip(split[k], Whitespace)]
        lines == IF Len(stripped) > expected_count /\ stripped[Len(stripped)] = <<>>
                 THEN SubSeq(stripped, 1, expected_count) ELSE stripped
    IN  [lines |-> lines, mismatch |-> Len(lines) # expected_count]

\* split_merged_result_checked: the lines in the places of the entries, the
\* original text where a line is missing, and the mismatch flag.
split_merged_result_checked(merged_text, original_entries) ==
    LET s == _split_lines(merged_text, original_entries)
    IN  [lines |-> [k \in 1..Len(original_entries) |->
                      IF k <= Len(s.lines) THEN s.lines[k] ELSE original_entries[k]],
         mismatch |-> s.mismatch]

MergerInit ==
    /\ fn_pc = "merger"
    /\ fn_in \in [texts : UNION {[1..n -> LinesUpTo(MaxLineLen) \ {<<>>}] : n \in 1..MaxLines},
                  batch_size : 1..MaxBatch]
    /\ fn_out = <<>>
    /\ fn_disk = <<>>

\* The texts are added and get_requests returns the requests.
MergerGetRequests ==
    /\ UNCHANGED notFn
    /\ fn_pc = "merger"
    /\ fn_out' = get_requests(fn_in.texts, fn_in.batch_size)
    /\ fn_pc' = "merged"
    /\ UNCHANGED <<fn_in, fn_disk>>

\* Every merged request's own text is split back.
MergerSplit ==
    /\ UNCHANGED notFn
    /\ fn_pc = "merged"
    /\ fn_disk' = [r \in 1..Len(fn_out) |->
                     IF fn_out[r].is_merged
                     THEN split_merged_result_checked(fn_out[r].text,
                                                      fn_out[r].original_entries)
                     ELSE [lines |-> <<fn_out[r].text>>, mismatch |-> FALSE]]
    /\ fn_pc' = "split"
    /\ UNCHANGED <<fn_in, fn_out>>

MergerNext == MergerGetRequests \/ MergerSplit

(***************************************************************************)
(* Placeholder protection (placeholder.py).  A text is a sequence of       *)
(* symbols: letters, blanks, angle brackets, and one symbol for a whole    *)
(* RPG Maker code or a whole placeholder key (RLPH_TAG0 stands for the key *)
(* of TAG 0 with its two brackets).  Of RPGM_PATTERNS these texts can      *)
(* match the code pattern and the tag pattern; answers hold undamaged keys *)
(* and no Cyrillic or Greek letters, so that phases 0 and 2 of the         *)
(* restoration find nothing to repair.                                     *)
(***************************************************************************)
Codes == {"\\V[1]", "\\v[1]", "\\C[1]"}
PhChars == {"a", " ", "<", ">"} \cup Codes
CmdKeys == <<"RLPH_CMD0", "RLPH_CMD1", "RLPH_CMD2", "RLPH_CMD3", "RLPH_CMD4", "RLPH_CMD5">>
TagKeys == <<"RLPH_TAG0", "RLPH_TAG1", "RLPH_TAG2", "RLPH_TAG3", "RLPH_TAG4", "RLPH_TAG5">>

RECURSIVE PhTextsUpTo(_, _)
PhTextsUpTo(n, chars) ==
    IF n = 0 THEN {<<>>}
    ELSE PhTextsUpTo(n - 1, chars)
           \cup {Append(t, c) : t \in PhTextsUpTo(n - 1, chars), c \in chars}

\* The position of the first c at or after i, or 0.
RECURSIVE FindFrom(_, _, _)
FindFrom(text, c, i) ==
    IF i > Len(text) THEN 0
    ELSE IF text[i] = c THEN i ELSE FindFrom(text, c, i + 1)

\* <[^>]+> at position i: the position of its closing bracket, or 0.
TagEnd(text, i) ==
    LET j == FindFrom(text, ">", i + 1)
    IN  IF text[i] = "<" /\ j >= i + 2 THEN j ELSE 0

\* replacer: the key of a matched token, by its first character.
PhKey(token, ph_id) ==
    IF token[1] \in Codes THEN CmdKeys[ph_id + 1] ELSE TagKeys[ph_id + 1]

\* PROTECT_RE.sub(replacer, text): the matches from left to right.
RECURSIVE ProtectFrom(_, _, _, _)
ProtectFrom(text, i, protected_text, placeholders) ==
    IF i > Len(text)
    THEN [text |-> protected_text, placeholders |-> placeholders]
    ELSE LET j == IF text[i] \in Codes THEN i ELSE TagEnd(text, i)
         IN  IF j = 0
             THEN ProtectFrom(text, i + 1, Append(protected_text, text[i]), placeholders)
             ELSE LET token == SubSeq(text, i, j)
                      key == PhKey(token, Len(placeholders))
                  IN  ProtectFrom(text, j + 1, Append(protected_text, key),
                                  Append(placeholders, [key |-> key, token |-> token]))

protect_rpgm_syntax(text) ==
    IF text = <<>> THEN [text |-> text, placeholders |-> <<>>]
    ELSE ProtectFrom(text, 1, <<>>, <<>>)

\* token_replacer and _replace_exact_placeholders: a key of the map becomes
\* its token, another key stays.
RECURSIVE ReplaceKeys(_, _)
ReplaceKeys(text, placeholders) ==
    IF text = <<>> THEN <<>>
    ELSE LET hit == {k \in 1..Len(placeholders) : placeholders[k].key = Head(text)}
         IN  (IF hit = {} THEN <<Head(text)>>
              ELSE placeholders[CHOOSE k \in hit : TRUE].token)
             \o ReplaceKeys(Tail(text), placeholders)

\* Phase 3: re.sub(r'<\s*([^>]+)\s*>', r'<\1>', result).  The group takes
\* everything up to the closing bracket but the whitespace after "<" (and
\* the last character when there is nothing but whitespace).
RECURSIVE Polish(_, _, _)
Polish(text, i, result) ==
    IF i > Len(text) THEN result
    ELSE LET j == TagEnd(text, i)
         IN  IF j = 0 THEN Polish(text, i + 1, Append(result, text[i]))
             ELSE LET inner == SubSeq(text, i + 1, j - 1)
                      group == IF LStrip(inner, Whitespace) # <<>>
                               THEN LStrip(inner, Whitespace)
                               ELSE <<inner[Len(inner)]>>
                  IN  Polish(text, j + 1, result \o <<"<">> \o group \o <<">">>)

restore_rpgm_syntax(translated, placeholders) ==
    IF translated = <<>> \/ placeholders = <<>> THEN translated
    ELSE Polish(ReplaceKeys(translated, placeholders), 1, <<>>)

\* str.lower() of a symbol, and text.replace(" ", "").lower().
Lower(c) ==
    CASE c = "\\V[1]" -> "\\v[1]"
      [] c = "\\C[1]" -> "\\c[1]"
      [] OTHER -> c
Clean(text) ==
    LET kept == SelectSeq(text, LAMBDA c : c # " ")
    IN  [k \in 1..Len(kept) |-> Lower(kept[k])]

\* piece in text.
Contains(text, piece) ==
    \E i \in 0..(Len(text) - Len(piece)) : SubSeq(text, i + 1, i + Len(piece)) = piece

\* original_token.upper().startswith('\C[') or ...startswith('\I[').
Decorative(token) == Lower(token[1]) = "\\c[1]"

\* validate_restoration: the tolerant loop when the line-break token is a
\* value of the map, the strict loop otherwise.
validate_restoration(original, restored, placeholders) ==
    LET clean_restored == Clean(restored)
        merging == \E k \in 1..Len(placeholders) :
                       placeholders[k].token = <<TOKEN_LINE_BREAK>>
        Skipped(token) == merging /\ (token = <<TOKEN_LINE_BREAK>> \/ Decorative(token))
        missing_tokens == {k \in 1..Len(placeholders) :
                             /\ ~Skipped(placeholders[k].token)
                             /\ ~Contains(clean_restored, Clean(placeholders[k].token))}
    IN  [ok |-> missing_tokens = {}, missing |-> missing_tokens]

RoundTripInit ==
    /\ fn_pc = "protect"
    /\ fn_in \in PhTextsUpTo(MaxTextLen, PhChars)
    /\ fn_out = <<>>
    /\ fn_disk = <<>>

ProtectText ==
    /\ UNCHANGED notFn
    /\ fn_pc = "protect"
    /\ fn_out' = protect_rpgm_syntax(fn_in)
    /\ fn_pc' = "protected"
    /\ UNCHANGED <<fn_in, fn_disk>>

\* The protected text comes back as it was sent and is restored.
RestoreText ==
    /\ UNCHANGED notFn
    /\ fn_pc = "protected"
    /\ fn_disk' = restore_rpgm_syntax(fn_out.text, fn_out.placeholders)
    /\ fn_pc' = "restored"
    /\ UNCHANGED <<fn_in, fn_out>>

RoundTripNext == ProtectText \/ RestoreText

\* What a backend can answer: any text of letters, blanks, brackets, codes
\* and keys.
AnswerChars == PhChars \cup {CmdKeys[1], CmdKeys[2], TagKeys[1], TagKeys[2]}

RemapInit ==
    /\ fn_pc = "slice"
    /\ fn_in \in PhTextsUpTo(MaxShortLen, PhChars) \ {<<>>}
    /\ fn_out = <<>>
    /\ fn_disk = <<>>

\* process_slice: the protection phase; the protected text is sent.
SliceProtect ==
    /\ UNCHANGED notFn
    /\ fn_pc = "slice"
    /\ fn_out' = protect_rpgm_syntax(fn_in)
    /\ fn_pc' = "sent"
    /\ UNCHANGED <<fn_in, fn_disk>>

\* _try_translate returns the part the backend answered, stripped.
BackendAnswer ==
    /\ UNCHANGED notFn
    /\ fn_pc = "sent"
    /\ \E answer \in PhTextsUpTo(MaxShortLen, AnswerChars) :
          fn_disk' = Strip(answer, Whitespace)
    /\ fn_pc' = "answered"
    /\ UNCHANGED <<fn_in, fn_out>>

\* process_slice: the re-map of one text, with restoration and validation.
SliceRemap ==
    /\ UNCHANGED notFn
    /\ fn_pc = "answered"
    /\ LET translated == fn_disk
           restored == restore_rpgm_syntax(translated, fn_out.placeholders)
           v == validate_restoration(fn_in, restored, fn_out.placeholders)
       IN  fn_disk' = IF translated # <<>>
                      THEN [validated |-> TRUE, restored |-> restored, ok |-> v.ok,
                            success |-> v.ok,
                            translated_text |-> IF v.ok THEN restored ELSE fn_in]
                      ELSE [validated |-> FALSE, restored |-> <<>>, ok |-> FALSE,
                            success |-> FALSE, translated_text |-> fn_in]
    /\ fn_pc' = "remapped"
    /\ UNCHANGED <<fn_in, fn_out>>

RemapNext == SliceProtect \/ BackendAnswer \/ SliceRemap

(***************************************************************************)
(* JSStringTokenizer.replace_string_at (js_tokenizer.py)                   *)
(***************************************************************************)
\* replace_string_at: the literal of the span [start, end) gives its place
\* to the new value, escaped and between the quotes.
replace_string_at(js_code, start, end, quote, new_value) ==
    SubSeq(js_code, 1, start - 1) \o <<quote>> \o _escape_for_js(new_value, quote)
      \o <<quote>> \o SubSeq(js_code, end, Len(js_code))

\* replace_string_at for the first k literals, each with its own value, from
\* the last to the first (the spans before a replaced literal stay valid).
RECURSIVE ReplaceOwnValues(_, _, _)
ReplaceOwnValues(js_code, tokens, k) ==
    IF k = 0 THEN js_code
    ELSE ReplaceOwnValues(replace_string_at(js_code, tokens[k].start, tokens[k].end,
                                            tokens[k].quote, tokens[k].value),
                          tokens, k - 1)

TokenizerInit ==
    /\ fn_pc = "js code"
    /\ fn_in \in TextsUpTo(MaxSrcLen)
    /\ fn_out = <<>>
    /\ fn_disk = <<>>

TokenizerExtract ==
    /\ UNCHANGED notFn
    /\ fn_pc = "js code"
    /\ fn_out' = extract_strings(fn_in)
    /\ fn_pc' = "tokens"
    /\ UNCHANGED <<fn_in, fn_disk>>

TokenizerReplace ==
    /\ UNCHANGED notFn
    /\ fn_pc = "tokens"
    /\ fn_disk' = ReplaceOwnValues(fn_in, fn_out, Len(fn_out))
    /\ fn_pc' = "replaced"
    /\ UNCHANGED <<fn_in, fn_out>>

TokenizerNext == TokenizerExtract \/ TokenizerReplace

(***************************************************************************)
(* JsonParser._set_value_at_path on trees with lists (json_parser.py).     *)
(* A path is given by its segments; the keys of the trees hold no dot and  *)
(* no escape token, so that a segment is its own unescaped form and no     *)
(* merged legacy key is found; the texts are no setValue scripts.          *)
(***************************************************************************)
List(q) == [type |-> "list", s |-> "", items |-> q]

IndexSegments == {"0", "1", "-1", "-2"}
KeySegments == {"k", "name"}

\* int(k) of a segment for which it raises no ValueError.
IntOf(seg) ==
    CASE seg = "0" -> 0
      [] seg = "1" -> 1
      [] seg = "-1" -> 0 - 1
      [] seg = "-2" -> 0 - 2

\* ref[k] of a Python list of length len: the place (from 1) index k reads,
\* or 0 when it raises IndexError.
ListPlace(len, k) ==
    IF k >= 0 THEN (IF k < len THEN k + 1 ELSE 0)
    ELSE (IF len + k >= 0 THEN len + k + 1 ELSE 0)

\* next(e for e in ref if isinstance(e, dict) and dict_key in e): the place
\* of the first such element, or 0.
FirstDictWith(ref, key) ==
    LET hits == {e \in 1..Len(ref.items) :
                    /\ ref.items[e].type = "dict"
                    /\ key \in DOMAIN ref.items[e].items}
    IN  IF hits = {} THEN 0 ELSE CHOOSE e \in hits : \A d \in hits : e <= d

NoTarget(exc) == [found |-> FALSE, pos |-> <<>>, exc |-> exc]

\* The traversal from segment i, ref being the node reached along pos: the
\* position that is assigned, or the way the method ends without assigning
\* (a return, or the exception that is raised).
RECURSIVE Traverse(_, _, _, _)
Traverse(ref, keys, i, pos) ==
    LET k == keys[i]
        len == Len(ref.items)
        place == ListPlace(len, IntOf(k))
        match == FirstDictWith(ref, k)
    IN  IF i < Len(keys)
        THEN CASE ref.type = "list" ->
                    IF k \in IndexSegments
                    THEN IF IntOf(k) >= len THEN NoTarget("return")
                         ELSE IF place = 0 THEN NoTarget("IndexError")
                         ELSE Traverse(ref.items[place], keys, i + 1, Append(pos, <<place>>))
                    ELSE IF match = 0 THEN NoTarget("return")
                         ELSE Traverse(ref.items[match], keys, i + 1, Append(pos, <<match>>))
               [] ref.type = "dict" ->
                    IF k \in DOMAIN ref.items
                    THEN Traverse(ref.items[k], keys, i + 1, Append(pos, k))
                    ELSE NoTarget("return")
               [] OTHER -> NoTarget("return")
        ELSE CASE ref.type = "list" ->
                    IF k \in IndexSegments
                    THEN IF IntOf(k) >= len THEN NoTarget("return")
                         ELSE IF place = 0 THEN NoTarget("return")
                         ELSE [found |-> TRUE, pos |-> Append(pos, <<place>>), exc |-> "none"]
                    ELSE IF match = 0 THEN NoTarget("return")
                         ELSE [found |-> TRUE, pos |-> pos \o <<<<match>>, k>>, exc |-> "none"]
               [] ref.type = "dict" ->
                    IF k \in DOMAIN ref.items
                    THEN [found |-> TRUE, pos |-> Append(pos, k), exc |-> "none"]
                    ELSE NoTarget("return")
               [] OTHER -> NoTarget("return")

\* The tree with the node at pos replaced; a step of pos is a key, or the
\* place of a list element as a one-element tuple.
RECURSIVE PutInTree(_, _, _)
PutInTree(node, pos, new) ==
    IF pos = <<>> THEN new
    ELSE IF node.type = "list"
    THEN List([node.items EXCEPT ![Head(pos)[1]] = PutInTree(@, Tail(pos), new)])
    ELSE Dict([node.items EXCEPT ![Head(pos)] = PutInTree(@, Tail(pos), new)])

\* The exceptions the outer try of _set_value_at_path catches.
CaughtAtPath == {"KeyError", "IndexError", "ValueError", "TypeError"}

\* _set_value_at_path: the tree afterwards and whether an exception left
\* the method.  With no segment, keys[-1] raises IndexError.
SetValueAtPath(tree, keys, value) ==
    LET r == IF keys = <<>> THEN NoTarget("IndexError") ELSE Traverse(tree, keys, 1, <<>>)
    IN  [tree |-> IF r.found THEN PutInTree(tree, r.pos, Str(value)) ELSE tree,
         raised |-> r.exc \notin (CaughtAtPath \cup {"none", "return"})]

\* The trees: a text, or a list or dict of texts, lists and dicts.
Inner ==
    {Str(Plain), List(<<>>), List(<<Str(Plain)>>), Dict([key \in {"name"} |-> Str(Plain)])}
PathTrees ==
    {Str(Plain)}
      \cup UNION {{List(q) : q \in [1..n -> Inner]} : n \in 0..MaxListLen}
      \cup UNION {{Dict(f) : f \in [S -> Inner]} : S \in SUBSET KeySegments}

RECURSIVE PathsUpTo(_)
PathsUpTo(n) ==
    IF n = 0 THEN {<<>>}
    ELSE PathsUpTo(n - 1)
           \cup {Append(p, seg) : p \in PathsUpTo(n - 1), seg \in IndexSegments \cup KeySegments}

\* How a path fails to resolve, if it does: by a key the dict does not
\* hold, an index that is no place of the list, or a step through a text.
\* (A key applied to a list is resolved by the code's own fallback and is
\* left out here.)
RECURSIVE LookupFailure(_, _)
LookupFailure(node, keys) ==
    IF keys = <<>> THEN "none"
    ELSE LET k == Head(keys)
         IN  CASE node.type = "str" -> "not a container"
               [] node.type = "dict" ->
                    IF k \in DOMAIN node.items
                    THEN LookupFailure(node.items[k], Tail(keys))
                    ELSE "unknown key"
               [] OTHER ->
                    IF k \in IndexSegments
                    THEN IF IntOf(k) >= 0 /\ IntOf(k) < Len(node.items)
                         THEN LookupFailure(node.items[IntOf(k) + 1], Tail(keys))
                         ELSE "index out of range"
                    ELSE "key on a list"

SetPathInit ==
    /\ fn_pc = "tree"
    /\ fn_in \in [tree : PathTrees, keys : PathsUpTo(MaxPathLen)]
    /\ fn_out = <<>>
    /\ fn_disk = <<>>

SetValueCall ==
    /\ UNCHANGED notFn
    /\ fn_pc = "tree"
    /\ fn_out' = SetValueAtPath(fn_in.tree, fn_in.keys, Translated)
    /\ fn_pc' = "set"
    /\ UNCHANGED <<fn_in, fn_disk>>

\* The caller goes on with the next path.
SetValueReturn ==
    /\ UNCHANGED notFn
    /\ fn_pc = "set"
    /\ fn_pc' = "returned"
    /\ UNCHANGED <<fn_in, fn_out, fn_disk>>

SetPathNext == SetValueCall \/ SetValueReturn

(***************************************************************************)
(* apply_translation with several paths of one data file: direct paths,    *)
(* paths under @JSON markers and the @JS literals of a script command      *)
(* (json_parser.py).  A str node holds its characters as items; a str that *)
(* holds the JSON text of an object has s = "{" and holds, as its one      *)
(* item, the object json.loads reads from it and json.dumps writes to it.  *)
(* The texts of the model pass is_safe_to_translate.                       *)
(***************************************************************************)
Text(chars) == [type |-> "str", s |-> "", items |-> chars]
JsonText(obj) == [type |-> "str", s |-> "{", items |-> <<obj>>]

JsSegments == {"@JS0", "@JS1"}
JsIndex(seg) == IF seg = "@JS0" THEN 0 ELSE 1
JsSegment(index) == IF index = 0 THEN "@JS0" ELSE "@JS1"

\* The node at a position of PutInTree.
RECURSIVE NodeAt(_, _)
NodeAt(node, pos) ==
    IF pos = <<>> THEN node
    ELSE IF node.type = "list" THEN NodeAt(node.items[Head(pos)[1]], Tail(pos))
    ELSE NodeAt(node.items[Head(pos)], Tail(pos))

\* _set_value_at_path with any value: the tree afterwards.
SetNodeAtPath(tree, keys, node) ==
    LET r == IF keys = <<>> THEN NoTarget("IndexError") ELSE Traverse(tree, keys, 1, <<>>)
    IN  IF r.found THEN PutInTree(tree, r.pos, node) ELSE tree

\* _get_value_at_path, for paths that apply no key to a list: the value, or
\* None as the empty tuple.
_get_value_at_path(doc, keys) ==
    LET r == IF keys = <<>> THEN [found |-> TRUE, pos |-> <<>>, exc |-> "none"]
             ELSE Traverse(doc, keys, 1, <<>>)
    IN  IF r.found THEN <<NodeAt(doc, r.pos)>> ELSE <<>>

\* _process_script_block of a block of one command (line_count = 0): the
\* paths of the literals that read as a sentence.
_process_script_block(merged, base_path) ==
    LET strings == extract_translatable_strings(merged)
        Taken(k) ==
            LET t == strings[k].value
            IN  /\ Strip(t, Whitespace) # <<>>
                /\ is_safe_to_translate(t)
                /\ Has(Strip(t, Whitespace), " ") /\ Len(Strip(t, Whitespace)) > 3
                /\ ~JsonParser_is_technical_string(t)
        RECURSIVE Collect(_)
        Collect(k) ==
            IF k > Len(strings) THEN <<>>
            ELSE (IF Taken(k)
                  THEN <<[path |-> base_path \o <<"parameters", "0", JsSegment(k - 1)>>,
                          text |-> strings[k].value]>>
                  ELSE <<>>) \o Collect(k + 1)
    IN  Collect(1)

\* _walk of an object with the members name (a text), list (an event list
\* of one script command) and param (a str of nested JSON): the (path, text)
\* pairs in the order of extraction.
RECURSIVE WalkDoc(_, _)
WalkDoc(node, current_path) ==
    LET Member(key) ==
            IF key \notin DOMAIN node.items THEN <<>>
            ELSE LET value == node.items[key]
                     new_path == Append(current_path, key)
                 IN  IF value.type = "list"
                     THEN _process_script_block(value.items[1].items["parameters"].items[1].items,
                                                Append(new_path, "0"))
                     ELSE IF value.s = "{"
                     THEN WalkDoc(value.items[1], Append(new_path, "@JSON"))
                     ELSE <<[path |-> new_path, text |-> value.items]>>
    IN  Member("name") \o Member("list") \o Member("param")

\* The place of the first @JSON marker of a path, or 0.
FirstJson(path) ==
    LET at == {i \in 1..Len(path) : path[i] = "@JSON"}
    IN  IF at = {} THEN 0 ELSE CHOOSE i \in at : \A j \in at : i <= j

\* The keys of a grouping dict in the order of their first entry.
RECURSIVE RootsOf(_, _)
RootsOf(entries, seen) ==
    IF entries = <<>> THEN <<>>
    ELSE IF Head(entries).root \in seen THEN RootsOf(Tail(entries), seen)
    ELSE <<Head(entries).root>> \o RootsOf(Tail(entries), seen \cup {Head(entries).root})

\* path.split(".@JSON", 1) of every entry with a marker.
SplitAtJson(entries) ==
    LET marked == SelectSeq(entries, LAMBDA e : FirstJson(e.path) # 0)
    IN  [i \in 1..Len(marked) |->
            [root |-> SubSeq(marked[i].path, 1, FirstJson(marked[i].path) - 1),
             path |-> SubSeq(marked[i].path, FirstJson(marked[i].path) + 1, Len(marked[i].path)),
             text |-> marked[i].text]]

\* _apply_nested_json_translation: the entries of this level are set in the
\* object read from the str at root_path, those with a further marker are
\* applied level by level, and the object is written back as a str.
RECURSIVE _apply_nested_json_translation(_, _, _)
_apply_nested_json_translation(doc, root_path, nested_trans) ==
    LET json_str == _get_value_at_path(doc, root_path)
        direct == SelectSeq(nested_trans, LAMBDA e : FirstJson(e.path) = 0)
        deeper == SplitAtJson(nested_trans)
        RECURSIVE SetDirect(_, _)
        SetDirect(obj, k) ==
            IF k > Len(direct) THEN obj
            ELSE SetDirect(IF direct[k].text = <<>> THEN obj
                           ELSE IF direct[k].path = <<>> THEN Text(direct[k].text)
                           ELSE SetNodeAtPath(obj, direct[k].path, Text(direct[k].text)),
                           k + 1)
        RECURSIVE Recurse(_, _)
        Recurse(obj, roots) ==
            IF roots = <<>> THEN obj
            ELSE Recurse(_apply_nested_json_translation(
                             obj, Head(roots),
                             SelectSeq(deeper, LAMBDA e : e.root = Head(roots))),
                         Tail(roots))
    IN  IF json_str = <<>> \/ json_str[1].type # "str" \/ json_str[1].s # "{" THEN doc
        ELSE SetNodeAtPath(doc, root_path,
                           JsonText(Recurse(SetDirect(json_str[1].items[1], 1),
                                            RootsOf(deeper, {}))))

\* _apply_script_translation of a block of one command: the literals are
\* found again in the command's code and replaced from the highest js_index
\* to the lowest.
_apply_script_translation(doc, base_path, updates) ==
    LET list_path == SubSeq(base_path, 1, Len(base_path) - 1)
        cmd_index == base_path[Len(base_path)]
        event_list == _get_value_at_path(doc, list_path)
        place == IntOf(cmd_index) + 1
        merged == event_list[1].items[place].items["parameters"].items[1].items
        strings == extract_translatable_strings(merged)
        RECURSIVE ReplaceFrom(_, _)
        ReplaceFrom(code, js_index) ==
            IF js_index < 0 THEN code
            ELSE LET mine == SelectSeq(updates, LAMBDA u : u.js_index = js_index)
                 IN  ReplaceFrom(IF mine = <<>> \/ mine[1].text = <<>> \/ js_index >= Len(strings)
                             THEN code
                             ELSE replace_string_at(code, strings[js_index + 1].start,
                                                    strings[js_index + 1].end,
                                                    strings[js_index + 1].quote, mine[1].text),
                             js_index - 1)
    IN  IF Len(base_path) < 2 \/ cmd_index \notin IndexSegments THEN doc
        ELSE IF event_list = <<>> \/ event_list[1].type # "list" THEN doc
        ELSE IF IntOf(cmd_index) < 0 \/ place > Len(event_list[1].items) THEN doc
        ELSE SetNodeAtPath(doc, base_path \o <<"parameters", "0">>,
                           Text(ReplaceFrom(merged, JsIndex("@JS1"))))

\* apply_translation of a data file: the paths are sorted into direct,
\* nested and script updates, which are applied in this order.
ApplyTranslations(doc, entries) ==
    LET IsScript(path) == path[Len(path)] \in JsSegments
        direct_updates ==
            SelectSeq(entries, LAMBDA e : FirstJson(e.path) = 0 /\ ~IsScript(e.path))
        nested_updates == SplitAtJson(entries)
        scripts ==
            SelectSeq(entries, LAMBDA e : FirstJson(e.path) = 0 /\ IsScript(e.path))
        script_updates ==
            [i \in 1..Len(scripts) |->
                [root |-> SubSeq(scripts[i].path, 1, Len(scripts[i].path) - 3),
                 js_index |-> JsIndex(scripts[i].path[Len(scripts[i].path)]),
                 text |-> scripts[i].text]]
        RECURSIVE Direct(_, _)
        Direct(tree, k) ==
            IF k > Len(direct_updates) THEN tree
            ELSE Direct(IF direct_updates[k].text = <<>> THEN tree
                        ELSE SetNodeAtPath(tree, direct_updates[k].path,
                                           Text(direct_updates[k].text)),
                        k + 1)
        RECURSIVE Nested(_, _)
        Nested(tree, roots) ==
            IF roots = <<>> THEN tree
            ELSE Nested(_apply_nested_json_translation(
                            tree, Head(roots),
                            SelectSeq(nested_updates, LAMBDA e : e.root = Head(roots))),
                        Tail(roots))
        RECURSIVE Scripts(_, _)
        Scripts(tree, roots) ==
            IF roots = <<>> THEN tree
            ELSE Scripts(_apply_script_translation(
                             tree, Head(roots),
                             SelectSeq(script_updates, LAMBDA e : e.root = Head(roots))),
                         Tail(roots))
    IN  Scripts(Nested(Direct(doc, 1), RootsOf(nested_updates, {})),
                RootsOf(script_updates, {}))

\* The texts of the data files and the texts of the translator.
SourceText == <<"a", " ", "a", "a">>
TranslatedTexts == {<<"a", " ", "a">>, <<"a", "a", " ", "a", "a">>}
Literal == <<"\"">> \o SourceText \o <<"\"">>
ScriptCodes == {Literal, Literal \o <<" ">> \o Literal}

EventList(code) ==
    List(<<Dict([parameters |-> List(<<Text(code)>>)])>>)

\* The objects with at most d levels of nested JSON under them.
RECURSIVE Objects(_)
Objects(d) ==
    LET flat == {Dict([name |-> Text(SourceText)])}
                  \cup {Dict([name |-> Text(SourceText), list |-> EventList(c)]) : c \in ScriptCodes}
    IN  IF d = 0 THEN flat
        ELSE flat \cup {Dict(("param" :> JsonText(inner)) @@ o.items) :
                            o \in flat, inner \in Objects(d - 1)}

\* The text a path addresses.
RECURSIVE ReadAt(_, _)
ReadAt(node, path) ==
    IF Head(path) = "name" THEN node.items["name"].items
    ELSE IF Head(path) = "param" THEN ReadAt(node.items["param"].items[1], Tail(Tail(path)))
    ELSE LET code == node.items["list"].items[1].items["parameters"].items[1].items
         IN  extract_translatable_strings(code)[JsIndex(path[Len(path)]) + 1].value

ApplyInit ==
    /\ fn_pc = "file"
    /\ fn_in \in Objects(MaxNest)
    /\ fn_out = <<>>
    /\ fn_disk = <<>>

ApplyExtract ==
    /\ UNCHANGED notFn
    /\ fn_pc = "file"
    /\ fn_out' = WalkDoc(fn_in, <<>>)
    /\ fn_pc' = "extracted"
    /\ UNCHANGED <<fn_in, fn_disk>>

\* The translator gives every extracted path a text.
ApplyTranslate ==
    /\ UNCHANGED notFn
    /\ fn_pc = "extracted"
    /\ \E texts \in [1..Len(fn_out) -> TranslatedTexts] :
          fn_out' = [i \in 1..Len(fn_out) |-> [path |-> fn_out[i].path, text |-> texts[i]]]
    /\ fn_pc' = "translated"
    /\ UNCHANGED <<fn_in, fn_disk>>

ApplyApply ==
    /\ UNCHANGED notFn
    /\ fn_pc = "translated"
    /\ fn_disk' = ApplyTranslations(fn_in, fn_out)
    /\ fn_pc' = "applied"
    /\ UNCHANGED <<fn_in, fn_out>>

ApplyNext == ApplyExtract \/ ApplyTranslate \/ ApplyApply

(***************************************************************************)
(* TextMerger on texts of any length (text_merger.py).  A text is given by *)
(* its length and by whether text.strip() is empty; an entry by its file,  *)
(* its key (its place in the input, so that no two entries share a key)    *)
(* and its text.                                                           *)
(***************************************************************************)
SizedText(n, blank) == [len |-> n, blank |-> blank]

\* len of the text flush_block joins from the entries of a block.
JoinedLen(block) ==
    LET RECURSIVE Sum(_)
        Sum(k) == IF k = 0 THEN 0 ELSE block[k].text.len + Sum(k - 1)
    IN  Sum(Len(block)) + (Len(block) - 1) * (TokenLineBreakLen + 2)

\* flush_block: the request of the current block: a single request for one
\* entry, a merged request with original_entries for several.
SizedFlush(m) ==
    IF m.current_block = <<>> THEN m
    ELSE [current_block |-> <<>>,
          merged_requests |->
              Append(m.merged_requests,
                     [key |-> m.current_block[1].key,
                      is_merged |-> Len(m.current_block) # 1,
                      len |-> JoinedLen(m.current_block),
                      original_entries |-> m.current_block,
                      file |-> 0])]

\* add without the test of the predicted size.
SizedAddUnlimited(m, e, bs) ==
    IF e.text.blank THEN m
    ELSE LET m1 == IF Len(m.current_block) >= bs THEN SizedFlush(m) ELSE m
         IN  [m1 EXCEPT !.current_block = Append(@, e)]

\* add: a blank text is dropped; the block is flushed first when it is full
\* or when the predicted size passes MAX_SAFE_CHARS.
SizedAdd(m, e, bs) ==
    LET RECURSIVE Sum(_)
        Sum(k) == IF k = 0 THEN 0 ELSE m.current_block[k].text.len + Sum(k - 1)
        current_char_count == Sum(Len(m.current_block))
        separator_overhead == (Len(m.current_block) + 1) * (TokenLineBreakLen + 2)
        total_predicted == current_char_count + e.text.len + separator_overhead
        m1 == IF Len(m.current_block) >= bs \/ total_predicted > TEXT_MERGER_MAX_SAFE_CHARS
              THEN SizedFlush(m) ELSE m
    IN  IF e.text.blank THEN m
        ELSE [m1 EXCEPT !.current_block = Append(@, e)]

\* reset
MergerReset == [current_block |-> <<>>, merged_requests |-> <<>>]

\* The keys of file_groups in the order of their first entry.
RECURSIVE FileOrder(_, _)
FileOrder(es, seen) ==
    IF es = <<>> THEN <<>>
    ELSE IF Head(es).file \in seen THEN FileOrder(Tail(es), seen)
    ELSE <<Head(es).file>> \o FileOrder(Tail(es), seen \cup {Head(es).file})

\* create_merged_requests with a merger that is not reset for a file.
CreateWithoutReset(es, bs) ==
    LET RECURSIVE AddFrom(_, _)
        AddFrom(m, file_entries) ==
            IF file_entries = <<>> THEN m
            ELSE AddFrom(SizedAdd(m, Head(file_entries), bs), Tail(file_entries))
        RECURSIVE Groups(_, _)
        Groups(m, files) ==
            IF files = <<>> THEN <<>>
            ELSE LET after == SizedFlush(AddFrom(m, SelectSeq(es, LAMBDA e : e.file = Head(files))))
                     file_requests == after.merged_requests
                 IN  [r \in 1..Len(file_requests) |->
                         [file_requests[r] EXCEPT !.file = Head(files)]]
                       \o Groups(after, Tail(files))
    IN  Groups(MergerReset, FileOrder(es, {}))

\* create_merged_requests: the entries are grouped by file; for every file
\* the merger is reset, takes the entries of the file and gives its
\* requests, which get the file in their metadata.
CreateMergedRequests(es, bs) ==
    LET RECURSIVE AddFrom(_, _)
        AddFrom(m, file_entries) ==
            IF file_entries = <<>> THEN m
            ELSE AddFrom(SizedAdd(m, Head(file_entries), bs), Tail(file_entries))
        RECURSIVE Groups(_)
        Groups(files) ==
            IF files = <<>> THEN <<>>
            ELSE LET file_requests ==
                         SizedFlush(AddFrom(MergerReset,
                                            SelectSeq(es, LAMBDA e : e.file = Head(files)))
                                   ).merged_requests
                 IN  [r \in 1..Len(file_requests) |->
                         [file_requests[r] EXCEPT !.file = Head(files)]]
                       \o Groups(Tail(files))
    IN  Groups(FileOrder(es, {}))

\* The texts of the extracted entries: blank ones, short ones, and texts
\* near and over MAX_SAFE_CHARS.
SizedTexts ==
    {SizedText(1, TRUE), SizedText(1, FALSE), SizedText(1989, FALSE),
     SizedText(3977, FALSE), SizedText(4001, FALSE)}

RECURSIVE EntriesUpTo(_)
EntriesUpTo(n) ==
    IF n = 0 THEN {<<>>}
    ELSE EntriesUpTo(n - 1)
           \cup {Append(es, [file |-> f, key |-> n, text |-> t]) :
                    es \in {q \in EntriesUpTo(n - 1) : Len(q) = n - 1},
                    f \in Files, t \in SizedTexts}

BatchInit ==
    /\ fn_pc = "entries"
    /\ fn_in \in [entries : EntriesUpTo(MaxEntries), batch_size : 1..MaxBatch]
    /\ fn_out = <<>>
    /\ fn_disk = <<>>

BatchCreate ==
    /\ UNCHANGED notFn
    /\ fn_pc = "entries"
    /\ fn_out' = CreateMergedRequests(fn_in.entries, fn_in.batch_size)
    /\ fn_pc' = "requests"
    /\ UNCHANGED <<fn_in, fn_disk>>

\* The pipeline takes the requests over.
BatchTaken ==
    /\ UNCHANGED notFn
    /\ fn_pc = "requests"
    /\ fn_pc' = "taken"
    /\ UNCHANGED <<fn_in, fn_out, fn_disk>>

BatchNext == BatchCreate \/ BatchTaken

(***************************************************************************)
(* TextMerger.split_merged_result_checked on any answer of a backend       *)
(* (text_merger.py).  An original entry is a key with its source text.     *)
(***************************************************************************)

\* The stripped pieces _split_lines gets from the text, before it looks at
\* the expected count.
SplitPieces(merged_text) ==
    LET text == _normalize_line_break_tokens(merged_text)
        split == IF Has(text, TOKEN_LINE_BREAK) THEN ReSplit(text) ELSE SplitLines(text)
    IN  [k \in 1..Len(split) |-> Strip(split[k], Whitespace)]

\* split_merged_result_checked that gives a pair for every line it has and
\* none for a missing line.
SplitUnpadded(merged_text, original_entries) ==
    LET s == _split_lines(merged_text, original_entries)
    IN  [pairs |-> [k \in 1..Len(s.lines) |->
                      [key |-> original_entries[IF k <= Len(original_entries) THEN k ELSE 1].key,
                       text |-> s.lines[k]]],
         mismatch |-> s.mismatch]

\* split_merged_result_checked: the (key, text) pairs and the mismatch flag.
SplitChecked(merged_text, original_entries) ==
    LET s == _split_lines(merged_text, original_entries)
    IN  [pairs |-> [k \in 1..Len(original_entries) |->
                      [key |-> original_entries[k].key,
                       text |-> IF k <= Len(s.lines) THEN s.lines[k]
                                ELSE original_entries[k].text]],
         mismatch |-> s.mismatch]

\* The answers of a backend, and the entries of a merged request.
AnswerSymbols == {"b", "\n", TOKEN_LINE_BREAK}
RECURSIVE AnswersUpTo(_)
AnswersUpTo(n) ==
    IF n = 0 THEN {<<>>}
    ELSE AnswersUpTo(n - 1) \cup {Append(t, c) : t \in AnswersUpTo(n - 1), c \in AnswerSymbols}

SplitKeys == <<"k1", "k2", "k3">>
OriginalEntries(n) == [k \in 1..n |-> [key |-> SplitKeys[k], text |-> <<"a">>]]

SplitInit ==
    /\ fn_pc = "answer"
    /\ fn_in \in [merged_text : AnswersUpTo(MaxMergedLen),
                  original_entries : {OriginalEntries(n) : n \in 2..Len(SplitKeys)}]
    /\ fn_out = <<>>
    /\ fn_disk = <<>>

SplitAnswer ==
    /\ UNCHANGED notFn
    /\ fn_pc = "answer"
    /\ fn_out' = SplitChecked(fn_in.merged_text, fn_in.original_entries)
    /\ fn_pc' = "pairs"
    /\ UNCHANGED <<fn_in, fn_disk>>

\* The pipeline stores the pairs.
SplitStored ==
    /\ UNCHANGED notFn
    /\ fn_pc = "pairs"
    /\ fn_pc' = "stored"
    /\ UNCHANGED <<fn_in, fn_out, fn_disk>>

SplitNext == SplitAnswer \/ SplitStored

(***************************************************************************)
(* JsonParser._process_dict on the object of a database file               *)
(* (json_parser.py).  The object holds values under name and description   *)
(* and is a sound object when it also holds volume, pitch and pan.         *)
(***************************************************************************)
DATABASE_FIELDS ==
    {"name", "description", "nickname", "profile", "message1", "message2", "message3",
     "message4", "gameTitle", "title", "message", "help", "text", "msg", "dialogue",
     "label", "format", "string", "prefix", "suffix", "commandName", "displayName",
     "currencyUnit", "locale", "battleName"}

Number == [type |-> "int", s |-> "", items |-> NoItems]
Null == [type |-> "null", s |-> "", items |-> NoItems]

\* _process_dict: the triples of the keys of the object, in the order of the
\* keys.  A key of DATABASE_FIELDS, and name outside a sound object, is
\* extracted with its value; the values of the other keys are walked, which
\* gives nothing for a number.
_process_dict(obj, current_path) ==
    LET is_sound_obj == {"name", "volume", "pitch", "pan"} \subseteq DOMAIN obj.items
        Member(key) ==
            LET new_path == IF current_path # <<>> THEN current_path \o <<key>> ELSE <<key>>
                context_tag ==
                    IF key \in {"name", "nickname", "gameTitle", "title", "currencyUnit"}
                    THEN "name"
                    ELSE IF key \in {"message1", "message2", "message3", "message4",
                                     "help", "description"}
                    THEN "dialogue_block" ELSE "name"
            IN  IF key \notin DOMAIN obj.items THEN <<>>
                ELSE IF is_sound_obj /\ key = "name" THEN <<>>
                ELSE IF key \in DATABASE_FIELDS \/ (key = "name" /\ ~is_sound_obj)
                THEN <<[path |-> new_path, value |-> obj.items[key], tag |-> context_tag]>>
                ELSE <<>>
    IN  Member("name") \o Member("description") \o Member("volume")
          \o Member("pitch") \o Member("pan")

\* process_file of the pipeline: len(t.strip()) raises for a value that is
\* no str, and the file is then dropped; otherwise the texts of at most one
\* character are filtered out.
FilterEntries(triples) ==
    IF \E i \in 1..Len(triples) : triples[i].value.type # "str"
    THEN [parsed |-> FALSE, entries |-> <<>>]
    ELSE [parsed |-> TRUE,
          entries |-> SelectSeq(triples,
                                LAMBDA e : Len(Strip(e.value.items, Whitespace)) > 1)]

\* The values a database file can hold under a key.
DbValues == {Text(t) : t \in TextsUpTo(MaxValueLen)} \cup {Number, Null}

DbObjects ==
    {Dict([name |-> n, description |-> d]) : n \in DbValues, d \in DbValues}
      \cup {Dict([name |-> n, volume |-> Number, pitch |-> Number, pan |-> Number]) :
                n \in DbValues}

DbInit ==
    /\ fn_pc = "object"
    /\ fn_in \in DbObjects
    /\ fn_out = <<>>
    /\ fn_disk = <<>>

DbExtract ==
    /\ UNCHANGED notFn
    /\ fn_pc = "object"
    /\ fn_out' = _process_dict(fn_in, <<"1">>)
    /\ fn_pc' = "extracted"
    /\ UNCHANGED <<fn_in, fn_disk>>

DbFilter ==
    /\ UNCHANGED notFn
    /\ fn_pc = "extracted"
    /\ fn_disk' = FilterEntries(fn_out)
    /\ fn_pc' = "filtered"
    /\ UNCHANGED <<fn_in, fn_out>>

DbNext == DbExtract \/ DbFilter

(***************************************************************************)
(* JsonParser._process_list on a list of event commands (json_parser.py).  *)
(* The text of a command is a sequence of symbols: the brackets and the    *)
(* slash of a tag, blanks, a letter, eval for a word of the code-tag list  *)
(* (eval, code, script, setup, action, js) and b for any other word.       *)
(***************************************************************************)
Sentence == <<"a", " ", "a">>
CommandTexts ==
    {<<"<", "eval", ">">>, <<"<", "/", "eval", ">">>, <<"<", "b", ">">>,
     <<"<", "eval", ">", "a", " ", "a", "<", "/", "eval", ">">>,
     <<" ", "<", "/", "eval", " ", "b", ">">>, <<"a", " ", "<", "eval", ">">>,
     Sentence}

\* The commands: comments (108, 408) and Show Text (401), with a text as
\* first parameter or with no parameter.
Commands ==
    [code : {108}, parameters : {<<>>} \cup {<<t>> : t \in CommandTexts}]
      \cup [code : {408}, parameters : {<<Sentence>>}]
      \cup [code : {401}, parameters : {<<Sentence>>}]

\* text_lower.split('>', 1)[0]
BeforeFirst(text, c) ==
    LET at == {i \in 1..Len(text) : text[i] = c}
    IN  IF at = {} THEN text
        ELSE SubSeq(text, 1, (CHOOSE i \in at : \A j \in at : i <= j) - 1)

\* The comment is a code tag: it starts with < , holds > and names a word of
\* the code-tag list before its first > .
IsCodeTag(param) ==
    LET text_lower == Strip(param, Whitespace)
    IN  /\ text_lower # <<>> /\ text_lower[1] = "<"
        /\ Has(text_lower, ">")
        /\ Has(BeforeFirst(text_lower, ">"), "eval")

IsClosingTag(param) ==
    LET text_lower == Strip(param, Whitespace)
    IN  Len(text_lower) > 1 /\ text_lower[1] = "<" /\ text_lower[2] = "/"

\* in_code_block after a comment that leaves it as it is.
CodeBlockIgnored(in_code_block, param) == FALSE

\* in_code_block after a comment with this text.
CodeBlockAfter(in_code_block, param) ==
    IF IsCodeTag(param) THEN ~IsClosingTag(param) ELSE in_code_block

\* _process_event_command for a comment or for Show Text: whether the first
\* parameter is extracted.  is_safe_to_translate rejects a text in angle
\* brackets and a single letter; a comment is taken when it does not start
\* with < and holds a blank.
CommandExtracted(cmd, translate_comments) ==
    LET param == cmd.parameters[1]
        text == Strip(param, Whitespace)
        safe == /\ text # <<>>
                /\ ~(text[1] = "<" /\ text[Len(text)] = ">")
                /\ ~(~Has(text, " ") /\ Len(text) < 2)
    IN  /\ cmd.parameters # <<>>
        /\ IF cmd.code = 401 THEN safe
           ELSE /\ translate_comments
                /\ safe
                /\ text[1] # "<"
                /\ Has(text, " ")

RECURSIVE CommandsUpTo(_)
CommandsUpTo(n) ==
    IF n = 0 THEN {<<>>}
    ELSE CommandsUpTo(n - 1) \cup {Append(q, c) : q \in CommandsUpTo(n - 1), c \in Commands}

\* fn_in is the list and the setting, fn_disk the loop variables i (from 1)
\* and in_code_block, fn_out the places of the extracted commands.
ListInit ==
    /\ fn_pc = "loop"
    /\ fn_in \in [list : CommandsUpTo(MaxCommands), translate_comments : BOOLEAN]
    /\ fn_out = <<>>
    /\ fn_disk = [i |-> 1, in_code_block |-> FALSE]

\* One turn of the loop for a comment with a str as first parameter.
ListComment ==
    /\ UNCHANGED notFn
    /\ fn_pc = "loop"
    /\ fn_disk.i <= Len(fn_in.list)
    /\ LET item == fn_in.list[fn_disk.i]
       IN  /\ item.code \in {108, 408}
           /\ item.parameters # <<>>
           /\ LET in_code_block == CodeBlockAfter(fn_disk.in_code_block, item.parameters[1])
              IN  /\ fn_disk' = [i |-> fn_disk.i + 1, in_code_block |-> in_code_block]
                  /\ fn_out' = IF ~in_code_block
                                  /\ CommandExtracted(item, fn_in.translate_comments)
                               THEN Append(fn_out, fn_disk.i) ELSE fn_out
    /\ UNCHANGED <<fn_pc, fn_in>>

\* One turn of the loop for another command, or for a comment without a
\* str parameter.
ListCommand ==
    /\ UNCHANGED notFn
    /\ fn_pc = "loop"
    /\ fn_disk.i <= Len(fn_in.list)
    /\ LET item == fn_in.list[fn_disk.i]
       IN  /\ item.code \notin {108, 408} \/ item.parameters = <<>>
           /\ fn_out' = IF CommandExtracted(item, fn_in.translate_comments)
                        THEN Append(fn_out, fn_disk.i) ELSE fn_out
    /\ fn_disk' = [fn_disk EXCEPT !.i = @ + 1]
    /\ UNCHANGED <<fn_pc, fn_in>>

ListEnd ==
    /\ UNCHANGED notFn
    /\ fn_pc = "loop"
    /\ fn_disk.i > Len(fn_in.list)
    /\ fn_pc' = "walked"
    /\ UNCHANGED <<fn_in, fn_out, fn_disk>>

ListNext == ListComment \/ ListCommand \/ ListEnd

(***************************************************************************)
(* RubyParser.extract_text on the object graph of a Ruby Marshal file      *)
(* (ruby_parser.py).  A node is a str, nil, a list, a dict or a RubyObject *)
(* with the nodes it refers to (the values of a dict or of the             *)
(* attributes); nodes are identified by their place in the heap, as id()   *)
(* identifies them.  No node is a bytes value, so that no list is the      *)
(* scripts array.                                                          *)
(***************************************************************************)
NodeIds == 1..MaxNodes

RECURSIVE KidsUpTo(_)
KidsUpTo(n) ==
    IF n = 0 THEN {<<>>}
    ELSE KidsUpTo(n - 1) \cup {Append(q, c) : q \in KidsUpTo(n - 1), c \in NodeIds}

RubyNodes ==
    [kind : {"str", "nil"}, kids : {<<>>}]
      \cup [kind : {"list", "dict", "object"}, kids : KidsUpTo(MaxKids)]

NotWalked == [visited |-> {}, raised |-> "none", walks |-> <<>>, deepest |-> 0]

\* _walk and _check_and_walk: the set of visited ids, the exception that
\* ended the walk, the containers walked (in order) and the largest depth a
\* call was made with.  In the list branch len(obj[0]) raises TypeError for
\* nil and for a RubyObject, obj[0][2] raises KeyError for a dict of three
\* entries, and the call of _check_and_walk without its depth argument
\* raises TypeError for the first item.
RECURSIVE RubyWalk(_, _, _, _)
RECURSIVE RubyCheckAndWalk(_, _, _, _)
RECURSIVE RubyWalkKids(_, _, _, _, _)
RubyWalkKids(heap, kids, k, depth, st) ==
    IF k > Len(kids) \/ st.raised # "none" THEN st
    ELSE RubyWalkKids(heap, kids, k + 1, depth,
                      RubyCheckAndWalk(heap, kids[k], depth, st))

RubyCheckAndWalk(heap, id, depth, st) ==
    IF depth > MAX_RECURSION_DEPTH THEN st
    ELSE IF heap[id].kind \in {"str", "object"} THEN st
    ELSE RubyWalk(heap, id, depth + 1, st)

RubyWalk(heap, id, depth, st) ==
    IF depth > MAX_RECURSION_DEPTH \/ id \in st.visited THEN st
    ELSE LET node == heap[id]
             st1 == [st EXCEPT !.visited = @ \cup {id},
                               !.deepest = IF depth > @ THEN depth ELSE @,
                               !.walks = IF node.kind \in {"list", "dict", "object"}
                                         THEN Append(@, id) ELSE @]
         IN  CASE node.kind = "list" ->
                    IF node.kids = <<>> THEN st1
                    ELSE IF heap[node.kids[1]].kind = "dict" /\ Len(heap[node.kids[1]].kids) = 3
                    THEN [st1 EXCEPT !.raised = "KeyError"]
                    ELSE [st1 EXCEPT !.raised = "TypeError"]
               [] node.kind \in {"dict", "object"} ->
                    RubyWalkKids(heap, node.kids, 1, depth + 1, st1)
               [] OTHER -> st1

\* fn_in is the file: the heap rubymarshal would load (the root is node 1)
\* and whether the load succeeds.
RubyInit ==
    /\ fn_pc = "file"
    /\ fn_in \in [heap : [NodeIds -> RubyNodes], loads : BOOLEAN]
    /\ fn_out = NotWalked
    /\ fn_disk = <<>>

\* rubymarshal.reader.load raises: the error is logged and [] is returned.
RubyLoadFailed ==
    /\ UNCHANGED notFn
    /\ fn_pc = "file"
    /\ ~fn_in.loads
    /\ fn_pc' = "returned"
    /\ UNCHANGED <<fn_in, fn_out, fn_disk>>

\* The walk returns.
RubyExtracted ==
    /\ UNCHANGED notFn
    /\ fn_pc = "file"
    /\ fn_in.loads
    /\ fn_out' = RubyWalk(fn_in.heap, 1, 0, NotWalked)
    /\ fn_out'.raised = "none"
    /\ fn_pc' = "returned"
    /\ UNCHANGED <<fn_in, fn_disk>>

\* The walk raises, and so does extract_text.
RubyRaised ==
    /\ UNCHANGED notFn
    /\ fn_pc = "file"
    /\ fn_in.loads
    /\ fn_out' = RubyWalk(fn_in.heap, 1, 0, NotWalked)
    /\ fn_out'.raised # "none"
    /\ fn_pc' = "raised"
    /\ UNCHANGED <<fn_in, fn_disk>>

RubyNext == RubyLoadFailed \/ RubyExtracted \/ RubyRaised

Init == PipeInit /\ WriteIdle /\ JsIdle /\ JsonIdle /\ FnIdle
Next == PipeNext
Spec == Init /\ [][Next]_vars

InitJs == PipeIdle /\ WriteIdle /\ JsInit /\ JsonIdle /\ FnIdle
SpecJs == InitJs /\ [][JsNext]_vars

InitJson == PipeIdle /\ WriteIdle /\ JsIdle /\ JsonInit /\ FnIdle
SpecJson == InitJson /\ [][JsonNext]_vars

InitPlugins == OnlyFn /\ PluginsInit
SpecPlugins == InitPlugins /\ [][PluginsNext]_vars

InitSave == OnlyFn /\ SaveInit
SpecSave == InitSave /\ [][SaveNext]_vars

InitTranslateBatch == OnlyFn /\ TranslateBatchInit
SpecTranslateBatch == InitTranslateBatch /\ [][TranslateBatchNext]_vars

\* The event loop runs every coroutine that can go on; every request ends
\* (answer, error or the timeout of session.get) and every sleep ends.
SpecTranslateBatchFair ==
    InitTranslateBatch /\ [][TranslateBatchNext]_vars /\ WF_vars(TranslateBatchNext)

InitMerger == OnlyFn /\ MergerInit
SpecMerger == InitMerger /\ [][MergerNext]_vars

InitRoundTrip == OnlyFn /\ RoundTripInit
SpecRoundTrip == InitRoundTrip /\ [][RoundTripNext]_vars

InitRemap == OnlyFn /\ RemapInit
SpecRemap == InitRemap /\ [][RemapNext]_vars

InitTokenizer == OnlyFn /\ TokenizerInit
SpecTokenizer == InitTokenizer /\ [][TokenizerNext]_vars

InitSetPath == OnlyFn /\ SetPathInit
SpecSetPath == InitSetPath /\ [][SetPathNext]_vars

InitApply == OnlyFn /\ ApplyInit
SpecApply == InitApply /\ [][ApplyNext]_vars

InitBatch == OnlyFn /\ BatchInit
SpecBatch == InitBatch /\ [][BatchNext]_vars

InitSplit == OnlyFn /\ SplitInit
SpecSplit == InitSplit /\ [][SplitNext]_vars

InitDb == OnlyFn /\ DbInit
SpecDb == InitDb /\ [][DbNext]_vars

InitList == OnlyFn /\ ListInit
SpecList == InitList /\ [][ListNext]_vars

InitRuby == OnlyFn /\ RubyInit
SpecRuby == InitRuby /\ [][RubyNext]_vars

InitWrite == PipeIdle /\ WriteInit /\ JsIdle /\ JsonIdle /\ FnIdle
SpecWrite == InitWrite /\ [][WriteNext]_vars

-----------------------------------------------------------------------------
(***************************************************************************)
(* Properties of the pipeline run (specification Spec)                     *)
(***************************************************************************)

\* The step of process_all's first loop that handles result idx.
HandlesResult == pc = "proc1" /\ pc' = "proc1" /\ idx' = idx + 1

\* The step of the retry loop that handles result idx.
HandlesRetryResult == pc = "proc2" /\ pc' = "proc2" /\ idx' = idx + 1

\* Result idx is a successful merged translation that does not split into
\* the expected number of lines.
IsMismatch == /\ results[idx].success
              /\ requests[idx].is_merged
              /\ SplitMismatch(results[idx].tr, requests[idx])

\* Every slice of the running translate_batch call went to the endpoints.
AllSent == \A s \in 1..Len(slices) : slices[s].st = "done"

\* The running call is the retry round and holds entry e as an unmerged
\* request of its own.
SentUnmerged(e) ==
    /\ call = 2
    /\ \E i \in 1..Len(requests) : requests[i] = RetryRequest(e) /\ ~requests[i].is_merged
    /\ AllSent

\* C3: when a successfully translated merged batch does not split into the
\* expected number of lines, the step that detects it records none of its
\* pieces and queues each of its lines; the queue keeps every line until the
\* retry round starts; the retry round sends one unmerged request per queued
\* line; afterwards a result for such a line comes only from the successful
\* retry request of that very line; and process_all returns only when every
\* queued line was sent.
MismatchRequeuesEveryLine ==
    [][/\ (HandlesResult /\ IsMismatch) =>
            \A e \in ReqEntries(requests[idx]) :
                results_map'[e] = results_map[e] /\ e \in SeqRange(retry_entries')
       /\ (pc \in {"proc1", "retrycheck"} /\ pc' # "stopcheck") =>
            SeqRange(retry_entries) \subseteq SeqRange(retry_entries')
       /\ (pc = "retrycheck" /\ pc' # "retrycheck" /\ retry_entries # <<>>) =>
            /\ pc' = "send" /\ call' = 2
            /\ Len(requests') = Len(retry_entries)
            /\ \A i \in 1..Len(retry_entries) :
                 /\ requests'[i].is_merged = FALSE
                 /\ requests'[i].file = retry_entries[i][1]
                 /\ requests'[i].entries = <<retry_entries[i][2]>>
       /\ (pc \in {"retrycheck", "send", "proc2"} /\ call' = call) =>
            \A e \in AllEntries : results_map'[e] # results_map[e] =>
                /\ HandlesRetryResult
                /\ results[idx].success
                /\ requests[idx] = RetryRequest(e)
       /\ (pc \in {"retrycheck", "proc2"} /\ pc' = "stopcheck") =>
            \A e \in SeqRange(retry_entries) : SentUnmerged(e)
      ]_vars

\* The retry round has run to its end in a run without cache hits: the lines
\* of a mismatched merged batch were queued, sent one by one and translated.
MismatchRetried ==
    /\ pc = "proc2" /\ idx > Len(results) /\ call = 2
    /\ Len(final_requests) = Len(requests_list)
    /\ Len(retry_entries) >= 2
    /\ \A e \in SeqRange(retry_entries) : SentUnmerged(e) /\ results_map[e] = "tr"

\* The lines the cache loop queued: queued lines of no request that was sent.
CacheQueued ==
    {e \in SeqRange(retry_entries) :
        \A i \in 1..Len(final_requests) : e \notin ReqEntries(final_requests[i])}

\* C4: the lines of a merged request whose cached text does not split into
\* the expected number of lines are sent as unmerged requests before
\* _translate_entries returns, whatever the cache held for the other requests.
CacheMismatchRequeued ==
    [][(pc # "stopcheck" /\ pc' = "stopcheck") =>
           \A e \in CacheQueued : SentUnmerged(e)]_vars

\* C6: with backups enabled, a file the pipeline wrote has a backup made in
\* its save step, a save worker is past create_backup only with a backup, and
\* a file whose create_backup returned no path is not written.
BackupBeforeWrite ==
    backup_enabled =>
        \A f \in Files :
            /\ f \in hist.wrote => backup[f] # "none"
            /\ sv[f] \in {"apply", "write", "writenone", "saved", "failed"} =>
                   backup[f] # "none"
            /\ sv[f] = "nobackup" => f \notin hist.wrote /\ backup[f] = "none"

\* One file was written after its backup and another was skipped because its
\* backup failed.
WroteAfterBackup ==
    /\ backup_enabled
    /\ \E f, g \in Files :
         /\ sv[f] = "saved" /\ f \in hist.wrote /\ backup[f] = "ok"
         /\ sv[g] = "nobackup" /\ g \notin hist.wrote

\* C7: no file is written before the results of the run are processed, and
\* a stop set before the save stage begins leaves every file unwritten and
\* ends the run with success=false.
StopBeforeSaveFails ==
    /\ hist.wrote # {} => pc \in {"saving", "done"}
    /\ hist.stopEarly => hist.wrote = {}
    /\ (hist.stopEarly /\ pc = "done") => finished = "fail"

\* C8: once the stop flag is set no further batch request goes to the
\* endpoints: the set of requests sent does not grow.
NoRequestAfterStop ==
    [][should_stop => Started' \subseteq Started]_vars

\* C9: a result with success=false adds nothing to results_map; an entry of
\* results_map comes only from a cache hit or from a successful result of a
\* request that holds the entry; and a save writes translations at the
\* positions that have an entry of results_map and nowhere else.
FailedRequestAddsNoResult ==
    [][/\ ((HandlesResult \/ HandlesRetryResult) /\ ~results[idx].success) =>
            results_map' = results_map
       /\ \A e \in AllEntries : results_map'[e] # results_map[e] =>
            \/ pc = "cache"
            \/ /\ HandlesResult \/ HandlesRetryResult
               /\ results[idx].success
               /\ e \in ReqEntries(requests[idx])
       /\ \A f \in Files : (disk'[f] # disk[f] /\ disk'[f].st = "ok") =>
            disk'[f].tr = {p \in 1..LinesOf(f) : results_map[Entry(f, p)] # "none"}
      ]_vars

\* A failed retry result was handled and its line has no result, while
\* another line of the run has one.
FailedResultSkipped ==
    /\ pc = "proc2" /\ idx > Len(results)
    /\ \E i \in 1..Len(results) :
         /\ ~results[i].success
         /\ \A e \in ReqEntries(requests[i]) : results_map[e] = "none"
    /\ \E e \in AllEntries : results_map[e] = "tr"

\* C10: the pipeline never replaces the content of a file that does not
\* parse.
UnparsedFileNotWritten ==
    [][\A f \in Files : disk[f].st = "garbled" /\ pc = "saving" => disk'[f] = disk[f]]_vars

-----------------------------------------------------------------------------
(***************************************************************************)
(* Properties of safe_write (specification SpecWrite)                      *)
(***************************************************************************)

\* C5 as stated: at every step the target holds its complete previous
\* content or the complete new content; when the call raises, the target
\* holds its previous content and the temporary file is gone.
SafeWriteAtomicAndClean ==
    /\ Complete(target)
    /\ raised # "none" => target = Old
    /\ (wpc = "done" /\ raised # "none") => temp = Absent

\* C5, amended: at every step, a crash included, the target holds its
\* complete previous content or the complete new content; when the call
\* raises, the target holds its previous content; when it raises an Exception
\* the temporary file is gone unless os.remove failed, which logs a warning.
SafeWriteAtomic ==
    /\ Complete(target)
    /\ raised # "none" => target = Old
    /\ (wpc = "done" /\ raised = "Exception" /\ ~warned) => temp = Absent

\* The body wrote part of the content and raised: the call is over, the
\* target holds its previous content and the temporary file is removed.
BodyRaisedAndCleaned ==
    /\ wpc = "done" /\ raised = "Exception"
    /\ written \in 1..(NewChunks - 1)
    /\ target = Old /\ temp = Absent /\ ~warned

-----------------------------------------------------------------------------
(***************************************************************************)
(* Properties of a JS source file (specification SpecJs)                   *)
(***************************************************************************)

\* C2: round-trip identity.  Injecting the identity map (each extracted
\* path mapped to its own extracted text) into a file yields the original:
\* for a JS source file, the text apply_translation returns is the text
\* that was read.
IdentityRoundTrip ==
    (js_pc = "applied" /\ content # <<>> /\ translations = IdentityMap(extracted))
        => js_result = [returned |-> "str", text |-> content]

-----------------------------------------------------------------------------
(***************************************************************************)
(* Properties of a JSON data file (specification SpecJson)                 *)
(***************************************************************************)

\* C1: JSON injection is a point mutation.  For every path p that
\* extract_text produced on a file and every text v, the empty text
\* included, apply_translation(F, {p: v}) returns a tree that differs from
\* the parsed tree of F only at the position the extractor read for p,
\* where the value is now v.
InjectionIsPointMutation ==
    json_pc = "applied" =>
        \A e \in json_extracted :
            e.path = json_path => json_result = PutAt(data, e.pos, Str(json_value))

-----------------------------------------------------------------------------
(***************************************************************************)
(* Properties of js/plugins.js (specification SpecPlugins)                 *)
(***************************************************************************)

\* C11: the plugins.js file written after injection is exactly the prefix
\* read from the file, then the JSON literal of the translated plugin
\* list, then the suffix read from the file, each once.
PluginsFileIsPrefixJsonSuffix ==
    fn_pc = "plugins.js saved" =>
        /\ Len(fn_disk) = 3
        /\ fn_disk[1] = TextPart(fn_in.prefix)
        /\ fn_disk[2].kind = "list literal"
        /\ fn_disk[2].val = TranslatedPlugins(fn_in.plugins, fn_out.changes)
        /\ fn_disk[3] = TextPart(fn_in.suffix)

-----------------------------------------------------------------------------
(***************************************************************************)
(* Properties of the save workers (specification SpecSave)                 *)
(***************************************************************************)

\* C12: during the parallel save no two workers write the same path: a
\* game file and its temporary file are written by one worker only, and no
\* two create_backup calls running at the same time write the same backup
\* path.
NoPathWrittenTwice ==
    fn_pc = "save stage" =>
        /\ \A r, q \in fn_disk : (r.path = q.path /\ r.path.kind # "backup") => r.by = q.by
        /\ \A v, w \in Savers :
              (v # w /\ fn_out.pc[v] = "copying" /\ fn_out.pc[w] = "copying")
                  => fn_out.path[v] # fn_out.path[w]


\* C13: translate_batch never has more than `concurrency` requests in flight
\* to the translation endpoints at the same time.
RequestsWithinConcurrency ==
    fn_pc = "translate_batch" => RequestsInFlight(1) <= fn_in.concurrency


\* The requests _try_translate sends for one text or one batch at most, and
\* the ones process_slice sends for slice s at most: one call for the batch
\* and one call for each of its texts.
TryBound ==
    n_endpoints * fn_in.max_retries
      + (IF fn_in.enable_lingva_fallback THEN LingvaTries ELSE 0)
AttemptBound(s) == (1 + Len(batches_of_text_slices[s])) * TryBound

\* The text of request r was translated and validated by its slice.
GotText(r) ==
    \E s \in SliceIds : \E j \in 1..Len(batches_of_text_slices[s]) :
        /\ batches_of_text_slices[s][j] = fn_in.requests[r]
        /\ Tasks[s].got[j]

MergerRoundTrip ==
    fn_pc = "split" =>
        \A r \in 1..Len(fn_out) :
            fn_out[r].is_merged =>
                /\ fn_disk[r].lines = fn_out[r].original_entries
                /\ ~fn_disk[r].mismatch


\* C16: restore_rpgm_syntax on the protected text and the map that
\* protect_rpgm_syntax returned for a text gives back exactly that text.
PlaceholderRoundTrip ==
    fn_pc = "restored" => fn_disk = fn_in

\* C17: when a request is reported as success, every structural fragment
\* that was masked in its text is in the returned text as it was.
SuccessKeepsFragments ==
    (fn_pc = "remapped" /\ fn_disk.success) =>
        \A k \in 1..Len(fn_out.placeholders) :
            ~Decorative(fn_out.placeholders[k].token) =>
                Contains(fn_disk.translated_text, fn_out.placeholders[k].token)

\* C18: validate_restoration returns ok exactly when every fragment of the
\* map that is missing from the restored text is a decorative code.
DecorativeMayBeMissing ==
    (fn_pc = "remapped" /\ fn_disk.validated) =>
        (fn_disk.ok <=>
            \A k \in 1..Len(fn_out.placeholders) :
                ~Contains(fn_disk.restored, fn_out.placeholders[k].token) =>
                    Decorative(fn_out.placeholders[k].token))


\* C19: the literals of extract_strings have disjoint spans in increasing
\* order, and replace_string_at with every literal's own value gives the
\* source back.
SpansDisjointAndIdentity ==
    /\ fn_pc \in {"tokens", "replaced"} =>
          \A k \in 1..Len(fn_out) :
              /\ fn_out[k].start < fn_out[k].end
              /\ k < Len(fn_out) => fn_out[k].end <= fn_out[k + 1].start
    /\ fn_pc = "replaced" => fn_disk = fn_in


\* C20: for every key of a file whose paths were extracted, the unescaped
\* form of the escaped key (the path segment _walk wrote) is the key.
PathKeyCodecReversible ==
    json_pc \in {"extracted", "applied"} =>
        \A k \in DOMAIN data.items : _unescape_path_key(_escape_path_key(k)) = k


\* C21: _set_value_at_path with a path that does not resolve (unknown key,
\* index out of range, step through a value that is no container) leaves
\* the tree as it was and raises nothing.
FailedLookupChangesNothing ==
    (fn_pc \in {"set", "returned"}
       /\ LookupFailure(fn_in.tree, fn_in.keys)
             \in {"unknown key", "index out of range", "not a container"}) =>
        /\ fn_out.tree = fn_in.tree
        /\ ~fn_out.raised


\* C22: after one apply_translation call with several translations (direct
\* paths, paths under @JSON markers, several @JS literals of a script
\* command), every translation stands at the position its path addressed
\* at extraction.
EveryTranslationAtItsPath ==
    fn_pc = "applied" =>
        \A i \in 1..Len(fn_out) : ReadAt(fn_disk, fn_out[i].path) = fn_out[i].text


\* C23: after the add calls and get_requests, every request holds at least
\* one and at most batch_size entries, is merged exactly when it holds two
\* or more, and the joined text of a merged request has at most
\* MAX_SAFE_CHARS characters.
RequestsWithinLimits ==
    fn_pc \in {"requests", "taken"} =>
        \A r \in 1..Len(fn_out) :
            /\ Len(fn_out[r].original_entries) \in 1..fn_in.batch_size
            /\ fn_out[r].is_merged <=> Len(fn_out[r].original_entries) >= 2
            /\ fn_out[r].is_merged => fn_out[r].len <= TEXT_MERGER_MAX_SAFE_CHARS

\* A merged request just under the limit next to a single request whose
\* text is over it.
MergedNearLimit ==
    /\ fn_pc = "requests"
    /\ \E r \in 1..Len(fn_out) :
          fn_out[r].is_merged /\ fn_out[r].len + TokenLineBreakLen + 2 >= TEXT_MERGER_MAX_SAFE_CHARS
    /\ \E r \in 1..Len(fn_out) :
          ~fn_out[r].is_merged /\ fn_out[r].len > TEXT_MERGER_MAX_SAFE_CHARS

\* The keys of the entries of the requests of a file, in request order.
RECURSIVE RequestKeys(_, _)
RequestKeys(reqs, f) ==
    IF reqs = <<>> THEN <<>>
    ELSE (IF Head(reqs).file = f
          THEN [i \in 1..Len(Head(reqs).original_entries) |-> Head(reqs).original_entries[i].key]
          ELSE <<>>) \o RequestKeys(Tail(reqs), f)

\* C29: create_merged_requests neither loses nor duplicates a line: for
\* every file, the entries of its requests in request order are the input
\* entries of the file with a non-blank text, in input order; and the
\* entries of a request all come from the file of the request.
NoLineLostOrDuplicated ==
    fn_pc \in {"requests", "taken"} =>
        /\ \A f \in Files :
              LET kept == SelectSeq(fn_in.entries, LAMBDA e : e.file = f /\ ~e.text.blank)
              IN  RequestKeys(fn_out, f) = [i \in 1..Len(kept) |-> kept[i].key]
        /\ \A r \in 1..Len(fn_out) :
              \A i \in 1..Len(fn_out[r].original_entries) :
                  fn_in.entries[fn_out[r].original_entries[i].key].file = fn_out[r].file

\* Entries of two files alternate, and a merged request joins two entries
\* of one file around an entry of the other.
MergedAcrossOtherFile ==
    /\ fn_pc = "requests"
    /\ \E r \in 1..Len(fn_out) :
          /\ fn_out[r].is_merged
          /\ fn_out[r].original_entries[1].key + 1 < fn_out[r].original_entries[2].key


\* C24: split_merged_result_checked returns exactly one (key, text) pair
\* for every original entry, in the order of the entries, and an entry past
\* the last line of the answer gets its own source text.
OnePairPerEntry ==
    fn_pc \in {"pairs", "stored"} =>
        LET lines == _split_lines(fn_in.merged_text, fn_in.original_entries).lines
        IN  /\ Len(fn_out.pairs) = Len(fn_in.original_entries)
            /\ \A k \in 1..Len(fn_in.original_entries) :
                  /\ fn_out.pairs[k].key = fn_in.original_entries[k].key
                  /\ k <= Len(lines) => fn_out.pairs[k].text = lines[k]
                  /\ k > Len(lines) => fn_out.pairs[k].text = fn_in.original_entries[k].text

\* An answer with fewer lines than entries, at least one of them kept.
FewerLinesPadded ==
    /\ fn_pc = "pairs"
    /\ fn_out.mismatch
    /\ fn_out.pairs[1].text = <<"b">>
    /\ fn_out.pairs[Len(fn_out.pairs)].text = <<"a">>

\* C25: a trailing empty piece is dropped only when the answer splits into
\* exactly one piece more than expected; for every other count that differs
\* from the expected one the mismatch flag is set.
OnlyOneTrailingPieceDropped ==
    fn_pc \in {"pairs", "stored"} =>
        LET pieces == SplitPieces(fn_in.merged_text)
            expected_count == Len(fn_in.original_entries)
        IN  (/\ Len(pieces) # expected_count
             /\ ~(Len(pieces) = expected_count + 1 /\ pieces[Len(pieces)] = <<>>))
               => fn_out.mismatch


\* C26: every triple the extractor emits for a key of DATABASE_FIELDS
\* carries a str that passes is_safe_to_translate.
DatabaseValuesSafe ==
    fn_pc \in {"extracted", "filtered"} =>
        \A i \in 1..Len(fn_out) :
            fn_out[i].path[Len(fn_out[i].path)] \in DATABASE_FIELDS =>
                /\ fn_out[i].value.type = "str"
                /\ is_safe_to_translate(fn_out[i].value.items)


\* A comment that opens, or closes, a code tag.
OpensCodeTag(cmd) ==
    /\ cmd.code \in {108, 408} /\ cmd.parameters # <<>>
    /\ IsCodeTag(cmd.parameters[1]) /\ ~IsClosingTag(cmd.parameters[1])
ClosesCodeTag(cmd) ==
    /\ cmd.code \in {108, 408} /\ cmd.parameters # <<>>
    /\ IsCodeTag(cmd.parameters[1]) /\ IsClosingTag(cmd.parameters[1])

\* Command k follows a comment that opens a code tag, with no comment that
\* closes one in between.
InsideCodeBlock(list, k) ==
    \E j \in 1..(k - 1) :
        /\ OpensCodeTag(list[j])
        /\ \A m \in (j + 1)..(k - 1) : ~ClosesCodeTag(list[m])

\* C27: in a list of event commands, no comment (108, 408) is extracted
\* from the comment that opens a code tag up to the comment that closes
\* one; the comments after the closing one are examined again, and are
\* extracted when they read as text.
NoCommentFromCodeBlock ==
    fn_pc \in {"loop", "walked"} =>
        \A k \in 1..(fn_disk.i - 1) :
            LET cmd == fn_in.list[k]
                taken == \E n \in 1..Len(fn_out) : fn_out[n] = k
            IN  cmd.code \in {108, 408} =>
                    /\ InsideCodeBlock(fn_in.list, k) => ~taken
                    /\ (/\ ~InsideCodeBlock(fn_in.list, k)
                        /\ ~OpensCodeTag(cmd)
                        /\ CommandExtracted(cmd, fn_in.translate_comments)) => taken

\* A sentence in a comment is skipped inside a code block and a later one
\* is extracted after the closing tag.
CommentSkippedThenExtracted ==
    /\ fn_pc = "walked"
    /\ \E k \in 1..Len(fn_in.list) :
          /\ fn_in.list[k].code \in {108, 408}
          /\ InsideCodeBlock(fn_in.list, k)
          /\ CommandExtracted(fn_in.list[k], fn_in.translate_comments)
          /\ \E n \in 1..Len(fn_out) :
                fn_out[n] > k /\ fn_in.list[fn_out[n]].code \in {108, 408}


\* C28: extract_text of the Ruby parser returns without raising for every
\* finite object graph, lists and shared or cyclic nodes included; every
\* container is walked at most once and no call is deeper than the limit.
RubyExtractionReturns ==
    /\ fn_pc # "raised"
    /\ \A i, j \in 1..Len(fn_out.walks) : fn_out.walks[i] = fn_out.walks[j] => i = j
    /\ fn_out.deepest <= MAX_RECURSION_DEPTH


\* C30: process_all never stores in the cache the translation of a merged
\* request that does not split into the expected number of lines.
MismatchNeverCached ==
    [][(pc = "proc1" /\ cache' # cache) =>
           \A x \in cache' \ cache :
               \A i \in 1..Len(requests) :
                   (x.text = ReqText(requests[i]) /\ requests[i].is_merged) =>
                       ~SplitMismatch(x.tr, requests[i])]_vars

=============================================================================
